---- MODULE Spec2Model ----
(***************************************************************************)
(* A model of the pdfcraft processing pipeline: the four processors        *)
(* (rasterize, pdf-to-image, watermark, pdf-to-docx), the progress /       *)
(* cancellation channel they share through their base class, and the       *)
(* pdf-to-docx worker with the message protocol between it and the main    *)
(* thread.                                                                 *)
(*                                                                         *)
(* The main thread is single-threaded JavaScript: one action is one        *)
(* synchronous run of code between two suspension points (awaits, event    *)
(* deliveries).  A synchronous run is written as a function on the record  *)
(* of everything the main thread can write (World); statements that follow *)
(* a return or a throw are skipped (Live).                                 *)
(***************************************************************************)
EXTENDS Integers, Sequences, FiniteSets, TLC

VARIABLES
    kind,        \* which processor class the instance under test is
    progress,    \* BasePDFProcessor.progress (instance field)
    cancelled,   \* BasePDFProcessor.cancelled (instance field)
    onProgress,  \* BasePDFProcessor.onProgress: the call whose callback is installed (0: none)
    worker,      \* PDFToDocxProcessor.worker: 0 is null, n > 0 the n-th Worker created
    workerReady, \* PDFToDocxProcessor.workerReady
    call,        \* the process() invocations: locals, position, returned envelope
    listeners,   \* calls whose handleMessage/handleError are registered on the worker
    initOwner,   \* call whose initWorker() listeners are registered on the worker (0: none)
    toWorker,    \* messages posted to the worker, not yet received by it
    toMain,      \* messages posted by the worker, not yet delivered to the main thread
    wk,          \* the worker script's module state and virtual file system
    handlers,    \* the worker's onmessage invocations in progress or finished
    now,         \* Date.now()
    errEvents,   \* number of worker 'error' events raised so far
    stats,       \* history: workers created, init messages posted
    fn,          \* a call of one of the pure helper functions: arguments, result
    tool         \* PDFToImageTool: the component's state, its ref and its conversions

vars == <<kind, progress, cancelled, onProgress, worker, workerReady, call,
          listeners, initOwner, toWorker, toMain, wk, handlers, now, errEvents,
          stats, fn, tool>>

----------------------------------------------------------------------------
(* Bounds of the model *)

MaxPages == 3
MaxSelLen == 2
MaxGrid == 2
NumCalls == 2
MaxClock == 1
MaxErrEvents == 1
MaxEnvMsgs == 2
MaxRangeLen == 4
MaxGroupPages == 5
MaxSpin == 3
MaxRuns == 3

MaxItems == IF MaxPages > MaxSelLen THEN MaxPages ELSE MaxSelLen

RECURSIVE Gcd(_, _)
Gcd(a, b) == IF b = 0 THEN a ELSE Gcd(b, a % b)

RECURSIVE LcmUpTo(_)
LcmUpTo(n) == IF n <= 1 THEN 1
              ELSE LET l == LcmUpTo(n - 1) IN (l * n) \div Gcd(l, n)

\* Percentages are rationals in the code (15 + (i / n) * 75); they are kept
\* exactly, as integers scaled by a common denominator of every loop length.
Den == LcmUpTo(MaxItems)
Pct(p) == p * Den

Calls == 1 .. NumCalls
Kinds == {"rasterize", "image", "watermark", "docx"}

----------------------------------------------------------------------------
(* Thrown values.  isErr: the value is an instance of Error.  enc: the     *)
(* message contains the substring 'encrypt'.                               *)

ErrBoom == [isErr |-> TRUE, msg |-> "boom"]
ErrEncrypted == [isErr |-> TRUE, msg |-> "file is encrypted"]
RawThrow == [isErr |-> FALSE, msg |-> "raw failure"]

Throwables == {ErrBoom, ErrEncrypted, RawThrow}

IncludesEncrypt(msg) == msg \in {"file is encrypted"}

\* A caller-supplied progress callback: it throws `val` when it is called
\* with percentage `at` (at = -1: it never throws).
Callbacks ==
    {[at |-> -1, val |-> ErrBoom],
     [at |-> Pct(10), val |-> ErrBoom],
     [at |-> Pct(10), val |-> RawThrow],
     [at |-> Pct(100), val |-> ErrBoom]}

----------------------------------------------------------------------------
(* ProcessInput *)

NoLayout == [columns |-> 1, rows |-> 1, skipFirstPage |-> FALSE]

DefaultInput ==
    [nfiles |-> 1, typeOk |-> TRUE, cb |-> [at |-> -1, val |-> ErrBoom],
     format |-> "png", pageRange |-> <<>>, pages |-> <<>>,
     layout |-> NoLayout, wmType |-> "text", wmPages |-> "all"]

----------------------------------------------------------------------------
(* The state of one process() invocation *)

IdleCall ==
    [pc |-> "idle", inp |-> DefaultInput, out |-> {},
     last |-> -1, mono |-> TRUE, hundred |-> FALSE, afterDone |-> FALSE,
     total |-> 0, pages |-> <<>>, i |-> 0, sel |-> <<>>,
     images |-> <<>>, pdfOutput |-> FALSE,
     envOk |-> <<>>, envFail |-> 0,
     sawCancel |-> FALSE, caught |-> {}, docErr |-> {},
     initP |-> "none", initErr |-> "",
     convP |-> "none", convVal |-> {}, convErr |-> "",
     msgId |-> -1, rejected |-> FALSE]

World ==
    [progress |-> progress, cancelled |-> cancelled, onProgress |-> onProgress,
     worker |-> worker, workerReady |-> workerReady, call |-> call,
     listeners |-> listeners, initOwner |-> initOwner, toWorker |-> toWorker,
     stats |-> stats, exc |-> {}, wreset |-> FALSE]

\* The main-thread run is committed; an exception left in exc at the end of a
\* run of process() has escaped it (Escape turns it into a rejected promise
\* before Commit).
Commit(m) ==
    /\ progress' = m.progress
    /\ cancelled' = m.cancelled
    /\ onProgress' = m.onProgress
    /\ worker' = m.worker
    /\ workerReady' = m.workerReady
    /\ call' = m.call
    /\ listeners' = m.listeners
    /\ initOwner' = m.initOwner
    /\ toWorker' = m.toWorker
    /\ stats' = m.stats

Live(m, c) == m.exc = {} /\ m.call[c].pc # "done"

Throw(m, c, e) == IF Live(m, c) THEN [m EXCEPT !.exc = {e}] ELSE m

Goto(m, c, label) == IF Live(m, c) THEN [m EXCEPT !.call[c].pc = label] ELSE m

\* An exception that leaves process() rejects the promise it returned.
Escape(m, c) ==
    IF m.exc = {} THEN m
    ELSE [m EXCEPT !.exc = {}, !.call[c].pc = "done", !.call[c].rejected = TRUE]

----------------------------------------------------------------------------
(* BasePDFProcessor: the helpers every processor inherits *)

Clamp(p) == IF p < 0 THEN 0 ELSE IF p > Pct(100) THEN Pct(100) ELSE p

\* reset(): progress 0, cancelled false
Reset(m) == [m EXCEPT !.progress = 0, !.cancelled = FALSE]

\* updateProgress(p, message): stores the percentage and calls the installed
\* callback with it; what the callback throws propagates to the caller.
\* history: last is the percentage the callback of call k received last, mono
\* that it never received a smaller one than before, hundred that it
\* received 100, afterDone that it was called after call k had resolved.
ReportProgress(m, p) ==
    LET q == Clamp(p)
        k == m.onProgress
        m1 == [m EXCEPT !.progress = q]
    IN IF k = 0 THEN m1
       ELSE LET m2 == [m1 EXCEPT
                          !.call[k].mono = @ /\ q >= m.call[k].last,
                          !.call[k].hundred = @ \/ q = Pct(100),
                          !.call[k].afterDone = @ \/ m.call[k].pc = "done",
                          !.call[k].last = q]
            IN IF m.call[k].inp.cb.at = q
               THEN [m2 EXCEPT !.exc = {m.call[k].inp.cb.val}]
               ELSE m2

\* this.updateProgress(p, ...) as a statement of process() of call c
UpdateProgress(m, c, p) == IF Live(m, c) THEN ReportProgress(m, p) ELSE m

\* checkCancelled()
CheckCancelled(m) == m.cancelled

\* history: a per-item cancellation check of call c runs now; sawCancel
\* remembers that one ran while the flag was set
NoteCheck(m, c) == [m EXCEPT !.call[c].sawCancel = @ \/ m.cancelled]

NoError == {}

\* createErrorOutput(code, message, details)
CreateErrorOutput(code, detail) ==
    [success |-> FALSE, result |-> {},
     error |-> {[code |-> code, detail |-> detail]}, meta |-> 0]

\* createSuccessOutput(result, filename, metadata); an undefined result is
\* the empty set
CreateSuccessOutput(result, meta) ==
    [success |-> TRUE, result |-> result, error |-> NoError, meta |-> meta]

\* return <envelope> from process()
Return(m, c, env) ==
    IF Live(m, c)
    THEN [m EXCEPT !.call[c].out = {env}, !.call[c].pc = "done"]
    ELSE m

ReturnCancelled(m, c) ==
    Return(m, c, CreateErrorOutput("PROCESSING_CANCELLED", ""))

\* error instanceof Error ? error.message : 'Unknown error'
MessageOf(e) == IF e.isErr THEN e.msg ELSE "Unknown error"

----------------------------------------------------------------------------
(* Sorted sequences of sets of integers *)

RECURSIVE SortedSeq(_)
SortedSeq(S) ==
    IF S = {} THEN <<>>
    ELSE LET lo == CHOOSE x \in S : \A y \in S : x <= y
         IN <<lo>> \o SortedSeq(S \ {lo})

----------------------------------------------------------------------------
(* RasterizePDFProcessor *)

\* Strings are sequences of one-character strings.

Digits == {"0", "1", "2", "3", "4", "5", "6", "7", "8", "9"}

DigitVal(ch) ==
    CASE ch = "0" -> 0 [] ch = "1" -> 1 [] ch = "2" -> 2 [] ch = "3" -> 3
      [] ch = "4" -> 4 [] ch = "5" -> 5 [] ch = "6" -> 6 [] ch = "7" -> 7
      [] ch = "8" -> 8 [] ch = "9" -> 9

IsSpace(ch) == ch = " "

RECURSIVE TrimStart(_)
TrimStart(str) ==
    IF str # <<>> /\ IsSpace(Head(str)) THEN TrimStart(Tail(str)) ELSE str

RECURSIVE TrimEnd(_)
TrimEnd(str) ==
    IF str # <<>> /\ IsSpace(str[Len(str)])
    THEN TrimEnd(SubSeq(str, 1, Len(str) - 1))
    ELSE str

\* String.prototype.trim
Trim(str) == TrimEnd(TrimStart(str))

\* String.prototype.includes, for a one-character needle
Includes(str, ch) == \E i \in 1 .. Len(str) : str[i] = ch

\* String.prototype.split, for a one-character separator
RECURSIVE Split(_, _)
Split(str, sep) ==
    IF ~Includes(str, sep) THEN <<str>>
    ELSE LET i == CHOOSE k \in 1 .. Len(str) :
                      str[k] = sep /\ \A l \in 1 .. k - 1 : str[l] # sep
         IN <<SubSeq(str, 1, i - 1)>> \o Split(SubSeq(str, i + 1, Len(str)), sep)

\* the value of the longest prefix of decimal digits, given the value acc of
\* the digits read so far
RECURSIVE DigitsPrefix(_, _)
DigitsPrefix(str, acc) ==
    IF str # <<>> /\ Head(str) \in Digits
    THEN DigitsPrefix(Tail(str), 10 * acc + DigitVal(Head(str)))
    ELSE acc

\* parseInt(str, 10): leading white space is skipped, a sign is accepted, the
\* longest prefix of digits is read and what follows it is ignored.  The
\* result is {} for NaN and {n} for the number n.
parseInt(str) ==
    LET t == TrimStart(str)
        neg == t # <<>> /\ Head(t) = "-"
        u == IF t # <<>> /\ Head(t) \in {"-", "+"} THEN Tail(t) ELSE t
    IN IF u = <<>> \/ Head(u) \notin Digits THEN {}
       ELSE {IF neg THEN 0 - DigitsPrefix(u, 0) ELSE DigitsPrefix(u, 0)}

\* isNaN
isNaN(x) == x = {}

NumberOf(x) == CHOOSE n \in x : TRUE

\* the pages one comma-separated part adds to the Set
PartPages(part, totalPages) ==
    IF Includes(part, "-")
    THEN LET pieces == Split(part, "-")
             start == parseInt(Trim(pieces[1]))
             end == parseInt(Trim(pieces[2]))
         IN IF ~isNaN(start) /\ ~isNaN(end)
            THEN {i \in 1 .. totalPages : NumberOf(start) <= i /\ i <= NumberOf(end)}
            ELSE {}
    ELSE LET pageNum == parseInt(part)
         IN IF ~isNaN(pageNum) /\ NumberOf(pageNum) >= 1 /\ NumberOf(pageNum) <= totalPages
            THEN {NumberOf(pageNum)}
            ELSE {}

\* parsePageRange without its first test: a blank string is parsed like any
\* other
parsePageRangeNoBlank(rangeStr, totalPages) ==
    LET parts == Split(rangeStr, ",")
    IN SortedSeq(UNION {PartPages(Trim(parts[j]), totalPages) : j \in 1 .. Len(parts)})

\* parsePageRange collecting the pages in an array instead of a Set: a page
\* named twice is kept twice
RECURSIVE PagesOfParts(_, _)
PagesOfParts(parts, totalPages) ==
    IF parts = <<>> THEN <<>>
    ELSE SortedSeq(PartPages(Trim(Head(parts)), totalPages))
         \o PagesOfParts(Tail(parts), totalPages)

parsePageRangeArray(rangeStr, totalPages) ==
    IF rangeStr = <<>> \/ Trim(rangeStr) = <<>>
    THEN [j \in 1 .. totalPages |-> j]
    ELSE PagesOfParts(Split(rangeStr, ","), totalPages)

\* parsePageRange(rangeStr, totalPages)
parsePageRange(rangeStr, totalPages) ==
    IF rangeStr = <<>> \/ Trim(rangeStr) = <<>>
    THEN [j \in 1 .. totalPages |-> j]
    ELSE LET parts == Split(rangeStr, ",")
         IN SortedSeq(UNION {PartPages(Trim(parts[j]), totalPages) :
                                j \in 1 .. Len(parts)})

getFileExtension(format) ==
    CASE format = "png" -> ".png"
      [] format = "jpeg" -> ".jpg"
      [] format = "webp" -> ".webp"
      [] OTHER -> ".png"

\* `${baseName}_page_${pageNum}${extension}`; baseName is the name of the one
\* input file
ImageFilename(pageNum, format) ==
    [base |-> "baseName", infix |-> "_page_", page |-> pageNum,
     ext |-> getFileExtension(format)]

\* zip.file(img.filename, img.blob) for every image: the archive keeps one
\* entry per name
ZipEntries(images, format) ==
    {ImageFilename(images[j], format) : j \in 1 .. Len(images)}

\* the outermost catch of RasterizePDFProcessor.process
RasterizeCatch(m, c) ==
    IF m.exc = {} THEN m
    ELSE LET e == CHOOSE x \in m.exc : TRUE
             m1 == [m EXCEPT !.exc = {}, !.call[c].caught = {e}]
         IN IF e.isErr /\ IncludesEncrypt(e.msg)
            THEN Return(m1, c, CreateErrorOutput("PDF_ENCRYPTED", "Please decrypt the file first."))
            ELSE Return(m1, c, CreateErrorOutput("PROCESSING_FAILED", MessageOf(e)))

\* after either render loop: assemble the output
RasterizeAfterLoop(m, c) ==
    LET k == m.call[c] IN
    IF k.inp.format = "pdf"
    THEN IF ~k.pdfOutput
         THEN Return(m, c, CreateErrorOutput("PROCESSING_FAILED", "Unknown rendering error"))
         ELSE LET m1 == UpdateProgress(UpdateProgress(m, c, Pct(92)), c, Pct(100))
              IN Return(m1, c, CreateSuccessOutput({k.images}, Len(k.pages)))
    ELSE IF Len(k.images) = 0
         THEN Return(m, c, CreateErrorOutput("PROCESSING_FAILED", "Unknown rendering error"))
         ELSE LET m1 == UpdateProgress(m, c, Pct(92))
              IN IF Len(k.images) = 1
                 THEN Return(UpdateProgress(m1, c, Pct(100)), c,
                             CreateSuccessOutput({k.images}, 1))
                 ELSE Goto(m1, c, "r_zip")

\* the head of an iteration of either render loop: loop test, cancellation
\* check, progress report; then the page is awaited
RasterizeLoopHead(m, c) ==
    LET k == m.call[c] IN
    IF ~Live(m, c) THEN m
    ELSE IF k.i >= Len(k.pages) THEN RasterizeAfterLoop(m, c)
    ELSE IF CheckCancelled(m)
         THEN ReturnCancelled(NoteCheck(m, c), c)
         ELSE Goto(UpdateProgress(NoteCheck(m, c), c,
                                  Pct(15) + (k.i * 75 * Den) \div Len(k.pages)),
                   c, "r_page")

\* process(): from the call to the first await (loadPdfjs)
RasterizeStart(m, c, input) ==
    LET m0 == [Reset(m) EXCEPT !.onProgress = c,
                               !.call[c] = [IdleCall EXCEPT !.inp = input]]
    IN IF input.nfiles # 1
       THEN Escape(Return(m0, c, CreateErrorOutput("INVALID_OPTIONS", "file count")), c)
       ELSE Escape(RasterizeCatch(Goto(UpdateProgress(m0, c, Pct(5)), c, "r_lib"), c), c)

\* loadPdfjs() settles; then up to the await of the document
RasterizeLib(m, c, thrown) ==
    LET m1 == IF thrown = {} THEN Goto(UpdateProgress(m, c, Pct(10)), c, "r_doc")
              ELSE Throw(m, c, CHOOSE e \in thrown : TRUE)
    IN Escape(RasterizeCatch(m1, c), c)

\* file.arrayBuffer() and getDocument() settle; then page-range parsing and,
\* in image mode, the head of the first iteration
RasterizeDoc(m, c, thrown, totalPages) ==
    LET k == m.call[c]
        pagesToRender == parsePageRange(k.inp.pageRange, totalPages)
        m1 == IF thrown # {}
              THEN Throw([m EXCEPT !.call[c].docErr = thrown], c,
                         CHOOSE e \in thrown : TRUE)
              ELSE IF CheckCancelled(m) THEN ReturnCancelled(m, c)
              ELSE LET m2 == UpdateProgress(m, c, Pct(10))
                       m3 == [m2 EXCEPT !.call[c].total = totalPages,
                                        !.call[c].pages = pagesToRender]
                   IN IF Len(pagesToRender) = 0
                      THEN Return(m3, c, CreateErrorOutput("INVALID_OPTIONS", "No valid pages"))
                      ELSE LET m4 == UpdateProgress(m3, c, Pct(15))
                           IN IF k.inp.format = "pdf"
                              THEN Goto(m4, c, "r_import")
                              ELSE RasterizeLoopHead(m4, c)
    IN Escape(RasterizeCatch(m1, c), c)

\* import('jspdf') settles; then the head of the first iteration
RasterizeImport(m, c, thrown) ==
    LET m1 == IF thrown = {} THEN RasterizeLoopHead(m, c)
              ELSE Throw(m, c, CHOOSE e \in thrown : TRUE)
    IN Escape(RasterizeCatch(m1, c), c)

\* the awaits of one page (getPage, render, toBlob) settle: ok, or one of
\* them threw into the per-page catch; then the next iteration's head
RasterizePage(m, c, ok) ==
    LET k == m.call[c]
        pageNum == k.pages[k.i + 1]
        \* pdf mode: 'if (i === 0) new jsPDF else pdfOutput!.addPage': addPage
        \* on a null pdfOutput throws into the per-page catch
        added == IF k.inp.format = "pdf"
                 THEN ok /\ (k.i = 0 \/ k.pdfOutput)
                 ELSE ok
        m1 == [m EXCEPT
                 !.call[c].images = IF added THEN Append(@, pageNum) ELSE @,
                 !.call[c].pdfOutput = @ \/ (k.inp.format = "pdf" /\ ok /\ k.i = 0),
                 !.call[c].envOk = IF ok THEN Append(@, pageNum) ELSE @,
                 !.call[c].envFail = IF ok THEN @ ELSE 1,
                 !.call[c].i = @ + 1]
    IN Escape(RasterizeCatch(RasterizeLoopHead(m1, c), c), c)

\* import('jszip') and generateAsync settle
RasterizeZip(m, c, thrown) ==
    LET k == m.call[c]
        m1 == IF thrown = {}
              THEN Return(UpdateProgress(m, c, Pct(100)), c,
                          CreateSuccessOutput({k.images}, Len(k.images)))
              ELSE Throw(m, c, CHOOSE e \in thrown : TRUE)
    IN Escape(RasterizeCatch(m1, c), c)

\* range strings given to the processor
RangeSamples ==
    {<<"1">>, <<"2">>, <<"9">>, <<"a">>, <<",">>, <<" ">>,
     <<"1", "-", "3">>, <<"2", "-", "9">>, <<"3", "-", "1">>,
     <<"3", ",", "1">>, <<"2", ",", "2">>, <<"0", ",", "9">>,
     <<"2", "a">>, <<"1", ",", " ", "3">>}

RasterizeInputs ==
    {[DefaultInput EXCEPT !.nfiles = n] : n \in {0, 2}}
    \cup {[DefaultInput EXCEPT !.typeOk = FALSE]}
    \cup
    {[DefaultInput EXCEPT !.cb = cb, !.format = f, !.pageRange = r] :
        cb \in Callbacks, f \in {"png", "pdf"}, r \in RangeSamples}
    \cup
    {[DefaultInput EXCEPT !.cb = cb, !.format = f] :
        cb \in Callbacks, f \in {"png", "pdf"}}

MaybeThrown == {{}} \cup {{e} : e \in Throwables}

MainUnchanged == UNCHANGED <<kind, toMain, wk, handlers, now, errEvents, fn, tool>>

RStart(c) ==
    /\ kind = "rasterize" /\ c = 1 /\ call[c].pc = "idle"
    /\ \E input \in RasterizeInputs : Commit(RasterizeStart(World, c, input))
    /\ MainUnchanged

RLib(c) ==
    /\ call[c].pc = "r_lib"
    /\ \E thrown \in MaybeThrown : Commit(RasterizeLib(World, c, thrown))
    /\ MainUnchanged

RDoc(c) ==
    /\ call[c].pc = "r_doc"
    /\ \E thrown \in MaybeThrown, totalPages \in 1 .. MaxPages :
          Commit(RasterizeDoc(World, c, thrown, totalPages))
    /\ MainUnchanged

RImport(c) ==
    /\ call[c].pc = "r_import"
    /\ \E thrown \in MaybeThrown : Commit(RasterizeImport(World, c, thrown))
    /\ MainUnchanged

RPage(c) ==
    /\ call[c].pc = "r_page"
    /\ \E ok \in BOOLEAN : Commit(RasterizePage(World, c, ok))
    /\ MainUnchanged

RZip(c) ==
    /\ call[c].pc = "r_zip"
    /\ \E thrown \in MaybeThrown : Commit(RasterizeZip(World, c, thrown))
    /\ MainUnchanged

----------------------------------------------------------------------------
(* PDFToImageProcessor *)

\* pagesToConvert: the pages option filtered to 1..totalPages (order and
\* repetitions kept), or every page when the option is empty
PagesToConvert(pagesOpt, totalPages) ==
    IF Len(pagesOpt) > 0
    THEN SelectSeq(pagesOpt, LAMBDA p : p >= 1 /\ p <= totalPages)
    ELSE [j \in 1 .. totalPages |-> j]

\* the grouping loop without the bound (i + j) < length of its inner loop
\* test: a last batch that cannot be filled is not formed
RECURSIVE GroupFromDropsPartial(_, _, _)
GroupFromDropsPartial(pages, i, pagesPerImage) ==
    IF i + pagesPerImage > Len(pages) THEN <<>>
    ELSE <<SubSeq(pages, i + 1, i + pagesPerImage)>>
         \o GroupFromDropsPartial(pages, i + pagesPerImage, pagesPerImage)

\* the grouping loop: for (i = startIndex; i < length; i += pagesPerImage)
RECURSIVE GroupFrom(_, _, _)
GroupFrom(pages, i, pagesPerImage) ==
    IF i >= Len(pages) THEN <<>>
    ELSE LET hi == IF i + pagesPerImage < Len(pages) THEN i + pagesPerImage
                   ELSE Len(pages)
         IN <<SubSeq(pages, i + 1, hi)>> \o GroupFrom(pages, i + pagesPerImage, pagesPerImage)

\* pageGroups of the grid mode
PageGroups(pages, pagesPerImage, skipFirst) ==
    IF skipFirst /\ Len(pages) > 0
    THEN <<<<pages[1]>>>> \o GroupFrom(pages, 1, pagesPerImage)
    ELSE GroupFrom(pages, 0, pagesPerImage)

\* the items of the render loop: one page each in single-page mode, the page
\* groups in grid mode
ImageItems(pages, layout) ==
    IF layout.columns * layout.rows = 1
    THEN [j \in 1 .. Len(pages) |-> <<pages[j]>>]
    ELSE PageGroups(pages, layout.columns * layout.rows, layout.skipFirstPage)

\* the outermost catch of PDFToImageProcessor.process
ImageCatch(m, c) ==
    IF m.exc = {} THEN m
    ELSE LET e == CHOOSE x \in m.exc : TRUE
             m1 == [m EXCEPT !.exc = {}, !.call[c].caught = {e}]
         IN Return(m1, c, CreateErrorOutput("PROCESSING_FAILED", MessageOf(e)))

\* after the loop: 'Finalizing...' and the success envelope
ImageAfterLoop(m, c) ==
    LET k == m.call[c]
        m1 == UpdateProgress(UpdateProgress(m, c, Pct(95)), c, Pct(100))
    IN IF Len(k.images) = 1
       THEN Return(m1, c, CreateSuccessOutput({k.images}, 1))
       ELSE Return(m1, c, CreateSuccessOutput({k.images}, Len(k.images)))

\* the loop head without 'if (this.checkCancelled()) return ...'
ImageLoopHeadNoCheck(m, c) ==
    LET k == m.call[c] IN
    IF ~Live(m, c) THEN m
    ELSE IF k.i >= Len(k.pages) THEN ImageAfterLoop(m, c)
    ELSE Goto(UpdateProgress(NoteCheck(m, c), c,
                             Pct(15) + (k.i * 80 * Den) \div Len(k.pages)),
              c, "i_item")

\* the head of an iteration (per page, or per group): loop test,
\* cancellation check, progress report; then the render is awaited
ImageLoopHead(m, c) ==
    LET k == m.call[c] IN
    IF ~Live(m, c) THEN m
    ELSE IF k.i >= Len(k.pages) THEN ImageAfterLoop(m, c)
    ELSE IF CheckCancelled(m)
         THEN ReturnCancelled(NoteCheck(m, c), c)
         ELSE Goto(UpdateProgress(NoteCheck(m, c), c,
                                  Pct(15) + (k.i * 80 * Den) \div Len(k.pages)),
                   c, "i_item")

\* process(): from the call to the first await (loadPdfjs)
ImageStart(m, c, input) ==
    LET m0 == [Reset(m) EXCEPT !.onProgress = c,
                               !.call[c] = [IdleCall EXCEPT !.inp = input]]
    IN IF input.nfiles # 1
       THEN Escape(Return(m0, c, CreateErrorOutput("INVALID_OPTIONS", "file count")), c)
       ELSE IF ~input.typeOk
       THEN Escape(Return(m0, c, CreateErrorOutput("FILE_TYPE_INVALID", "file type")), c)
       ELSE Escape(ImageCatch(Goto(UpdateProgress(m0, c, Pct(5)), c, "i_lib"), c), c)

\* loadPdfjs() settles; cancellation check; then the document is awaited
ImageLib(m, c, thrown) ==
    LET m1 == IF thrown # {} THEN Throw(m, c, CHOOSE e \in thrown : TRUE)
              ELSE IF CheckCancelled(m) THEN ReturnCancelled(m, c)
              ELSE Goto(UpdateProgress(m, c, Pct(10)), c, "i_doc")
    IN Escape(ImageCatch(m1, c), c)

\* the test of the grouping loop 'for (i = startIndex; i < length; i +=
\* pagesPerImage)', run one iteration at a time: the run stays inside the
\* loop, or leaves it for the group loop
ImageGroupTest(m, c) ==
    LET k == m.call[c] IN
    IF k.i < Len(k.sel) THEN Goto(m, c, "i_grouping")
    ELSE ImageLoopHead([m EXCEPT !.call[c].i = 0], c)

\* the body of the grouping loop for pagesPerImage <= 0: the inner loop
\* 'for (j = 0; j < pagesPerImage && ...)' does not run, the empty group is
\* pushed, i += pagesPerImage
ImageGroupBody(m, c) ==
    LET k == m.call[c]
        pagesPerImage == k.inp.layout.columns * k.inp.layout.rows
    IN Escape(ImageCatch(
           ImageGroupTest([m EXCEPT !.call[c].pages = Append(@, <<>>),
                                    !.call[c].i = @ + pagesPerImage], c), c), c)

\* the document is loaded; page selection, grouping, head of the first
\* iteration
ImageDoc(m, c, thrown, totalPages) ==
    LET k == m.call[c]
        layout == k.inp.layout
        pagesPerImage == layout.columns * layout.rows
        pagesToConvert == PagesToConvert(k.inp.pages, totalPages)
        m1 == IF thrown # {}
              THEN Throw([m EXCEPT !.call[c].docErr = thrown], c,
                         CHOOSE e \in thrown : TRUE)
              ELSE IF Len(pagesToConvert) = 0
              THEN Return([m EXCEPT !.call[c].total = totalPages], c,
                          CreateErrorOutput("INVALID_PAGE_RANGE", "No valid pages"))
              ELSE LET m2 == UpdateProgress(m, c, Pct(15))
                   IN IF pagesPerImage >= 1
                      THEN ImageLoopHead(
                               [m2 EXCEPT !.call[c].total = totalPages,
                                          !.call[c].sel = pagesToConvert,
                                          !.call[c].pages =
                                              ImageItems(pagesToConvert, layout)], c)
                      ELSE IF ~Live(m2, c) THEN m2
                      ELSE ImageGroupTest(
                               [m2 EXCEPT !.call[c].total = totalPages,
                                          !.call[c].sel = pagesToConvert,
                                          !.call[c].pages =
                                              IF layout.skipFirstPage
                                              THEN <<<<pagesToConvert[1]>>>>
                                              ELSE <<>>,
                                          !.call[c].i =
                                              IF layout.skipFirstPage THEN 1 ELSE 0], c)
    IN Escape(ImageCatch(m1, c), c)

\* renderPageToImage / renderGridPagesToImage settles: the image is pushed,
\* or the per-item catch returns PROCESSING_FAILED
ImageItem(m, c, thrown) ==
    LET k == m.call[c]
        item == k.pages[k.i + 1]
        m1 == IF thrown = {}
              THEN ImageLoopHead([m EXCEPT !.call[c].images = Append(@, item),
                                           !.call[c].envOk = Append(@, item),
                                           !.call[c].i = @ + 1], c)
              ELSE Return([m EXCEPT !.call[c].envFail = 1], c,
                          CreateErrorOutput("PROCESSING_FAILED",
                                            MessageOf(CHOOSE e \in thrown : TRUE)))
    IN Escape(ImageCatch(m1, c), c)

RECURSIVE SeqsUpTo(_, _)
SeqsUpTo(S, n) ==
    IF n = 0 THEN {<<>>}
    ELSE LET shorter == SeqsUpTo(S, n - 1)
         IN shorter \cup {Append(q, x) : q \in shorter, x \in S}

Layouts ==
    {[columns |-> co, rows |-> ro, skipFirstPage |-> sk] :
        co \in 1 .. MaxGrid, ro \in 1 .. MaxGrid, sk \in BOOLEAN}

\* pageLayout options outside the positive integers
LayoutsUnchecked ==
    {[columns |-> co, rows |-> ro, skipFirstPage |-> sk] :
        co \in {-1, 0}, ro \in {-1, 1}, sk \in BOOLEAN}

ImageInputs ==
    {[DefaultInput EXCEPT !.nfiles = n] : n \in {0, 2}}
    \cup {[DefaultInput EXCEPT !.typeOk = FALSE]}
    \cup
    {[DefaultInput EXCEPT !.pages = pg, !.layout = lay] :
        pg \in {<<>>, <<1>>}, lay \in LayoutsUnchecked}
    \cup
    {[DefaultInput EXCEPT !.cb = cb, !.pages = pg, !.layout = lay] :
        cb \in Callbacks, pg \in SeqsUpTo(1 .. MaxPages + 1, MaxSelLen),
        lay \in Layouts}

IStart(c) ==
    /\ kind = "image" /\ c = 1 /\ call[c].pc = "idle"
    /\ \E input \in ImageInputs : Commit(ImageStart(World, c, input))
    /\ MainUnchanged

ILib(c) ==
    /\ call[c].pc = "i_lib"
    /\ \E thrown \in MaybeThrown : Commit(ImageLib(World, c, thrown))
    /\ MainUnchanged

IDoc(c) ==
    /\ call[c].pc = "i_doc"
    /\ \E thrown \in MaybeThrown, totalPages \in 1 .. MaxPages :
          Commit(ImageDoc(World, c, thrown, totalPages))
    /\ MainUnchanged

IItem(c) ==
    /\ call[c].pc = "i_item"
    /\ \E thrown \in MaybeThrown : Commit(ImageItem(World, c, thrown))
    /\ MainUnchanged

\* one more iteration of the grouping loop of a run that is still inside it
IGroup(c) ==
    /\ call[c].pc = "i_grouping"
    /\ Len(call[c].pages) < MaxSpin
    /\ Commit(ImageGroupBody(World, c))
    /\ MainUnchanged

\* a synchronous run of the main thread has not returned
MainBusy == \E c \in Calls : call[c].pc = "i_grouping"

----------------------------------------------------------------------------
(* WatermarkProcessor *)

\* getPageIndices(pages, totalPages): 0-based indices
getPageIndices(pagesOpt, totalPages) ==
    CASE pagesOpt = "odd" ->
            SortedSeq({j \in 0 .. totalPages - 1 : j % 2 = 0})
      [] pagesOpt = "even" ->
            SortedSeq({j \in 0 .. totalPages - 1 : j % 2 = 1})
      [] OTHER -> SortedSeq(0 .. totalPages - 1)

\* process() without its try / catch: the exception leaves the call
WatermarkCatchAbsent(m, c) == m

\* the outermost catch of WatermarkProcessor.process
WatermarkCatch(m, c) ==
    IF m.exc = {} THEN m
    ELSE LET e == CHOOSE x \in m.exc : TRUE
             m1 == [m EXCEPT !.exc = {}, !.call[c].caught = {e}]
         IN Return(m1, c, CreateErrorOutput("PROCESSING_FAILED", MessageOf(e)))

\* the page loop from the head of iteration i to its next await: a text
\* watermark is drawn synchronously, so the loop runs on to 'Saving PDF...';
\* an image watermark awaits pdf.embedPng / embedJpg in every iteration
RECURSIVE WatermarkLoop(_, _)
WatermarkLoop(m, c) ==
    LET k == m.call[c]
        n == Len(k.pages)
    IN IF ~Live(m, c) THEN m
       ELSE IF k.i >= n THEN Goto(UpdateProgress(m, c, Pct(95)), c, "w_save")
       ELSE IF CheckCancelled(m)
            THEN ReturnCancelled(NoteCheck(m, c), c)
       ELSE IF k.inp.wmType = "image" THEN Goto(NoteCheck(m, c), c, "w_embed")
       ELSE LET m1 == [NoteCheck(m, c) EXCEPT !.call[c].images = Append(@, k.pages[k.i + 1]),
                                !.call[c].i = @ + 1]
            IN WatermarkLoop(
                   UpdateProgress(m1, c, Pct(30) + (60 * (k.i + 1) * Den) \div n), c)

\* process() reporting 'Loading PDF library...' before it counts the files
WatermarkStartProgressFirst(m, c, input) ==
    LET m0 == [Reset(m) EXCEPT !.onProgress = c,
                               !.call[c] = [IdleCall EXCEPT !.inp = input]]
        m1 == UpdateProgress(m0, c, Pct(10))
    IN IF input.nfiles # 1
       THEN Escape(WatermarkCatch(
                Return(m1, c, CreateErrorOutput("INVALID_OPTIONS", "file count")), c), c)
       ELSE Escape(WatermarkCatch(Goto(m1, c, "w_lib"), c), c)

\* process(): from the call to the first await (loadPdfLib)
WatermarkStart(m, c, input) ==
    LET m0 == [Reset(m) EXCEPT !.onProgress = c,
                               !.call[c] = [IdleCall EXCEPT !.inp = input]]
    IN IF input.nfiles # 1
       THEN Escape(Return(m0, c, CreateErrorOutput("INVALID_OPTIONS", "file count")), c)
       ELSE Escape(WatermarkCatch(Goto(UpdateProgress(m0, c, Pct(10)), c, "w_lib"), c), c)

\* loadPdfLib() settles
WatermarkLib(m, c, thrown) ==
    LET m1 == IF thrown # {} THEN Throw(m, c, CHOOSE e \in thrown : TRUE)
              ELSE Goto(UpdateProgress(m, c, Pct(20)), c, "w_doc")
    IN Escape(WatermarkCatch(m1, c), c)

\* arrayBuffer, PDFDocument.load and embedFont settle; then the page loop
WatermarkDoc(m, c, thrown, totalPages) ==
    LET k == m.call[c]
        m1 == IF thrown # {} THEN Throw(m, c, CHOOSE e \in thrown : TRUE)
              ELSE LET m2 == UpdateProgress(m, c, Pct(30))
                       m3 == [m2 EXCEPT !.call[c].total = totalPages,
                                        !.call[c].pages =
                                            getPageIndices(k.inp.wmPages, totalPages)]
                   IN WatermarkLoop(m3, c)
    IN Escape(WatermarkCatch(m1, c), c)

\* embedPng / embedJpg settles; the image is drawn, progress is reported and
\* the loop goes on
WatermarkEmbed(m, c, thrown) ==
    LET k == m.call[c]
        n == Len(k.pages)
        m1 == IF thrown # {} THEN Throw(m, c, CHOOSE e \in thrown : TRUE)
              ELSE LET m2 == [m EXCEPT !.call[c].images = Append(@, k.pages[k.i + 1]),
                                       !.call[c].i = @ + 1]
                   IN WatermarkLoop(
                          UpdateProgress(m2, c, Pct(30) + (60 * (k.i + 1) * Den) \div n), c)
    IN Escape(WatermarkCatch(m1, c), c)

\* pdf.save() settles
WatermarkSave(m, c, thrown) ==
    LET k == m.call[c]
        m1 == IF thrown # {} THEN Throw(m, c, CHOOSE e \in thrown : TRUE)
              ELSE Return(UpdateProgress(m, c, Pct(100)), c,
                          CreateSuccessOutput({k.images}, k.total))
    IN Escape(WatermarkCatch(m1, c), c)

WatermarkInputs ==
    {[DefaultInput EXCEPT !.nfiles = n] : n \in {0, 2}}
    \cup {[DefaultInput EXCEPT !.typeOk = FALSE]}
    \cup
    {[DefaultInput EXCEPT !.cb = cb, !.wmType = ty, !.wmPages = pg] :
        cb \in Callbacks, ty \in {"text", "image"}, pg \in {"all", "odd", "even"}}

WStart(c) ==
    /\ kind = "watermark" /\ c = 1 /\ call[c].pc = "idle"
    /\ \E input \in WatermarkInputs : Commit(WatermarkStart(World, c, input))
    /\ MainUnchanged

WLib(c) ==
    /\ call[c].pc = "w_lib"
    /\ \E thrown \in MaybeThrown : Commit(WatermarkLib(World, c, thrown))
    /\ MainUnchanged

WDoc(c) ==
    /\ call[c].pc = "w_doc"
    /\ \E thrown \in MaybeThrown, totalPages \in 1 .. MaxPages :
          Commit(WatermarkDoc(World, c, thrown, totalPages))
    /\ MainUnchanged

WEmbed(c) ==
    /\ call[c].pc = "w_embed"
    /\ \E thrown \in MaybeThrown : Commit(WatermarkEmbed(World, c, thrown))
    /\ MainUnchanged

WSave(c) ==
    /\ call[c].pc = "w_save"
    /\ \E thrown \in MaybeThrown : Commit(WatermarkSave(World, c, thrown))
    /\ MainUnchanged

----------------------------------------------------------------------------
(* PDFToDocxProcessor (main thread) *)

NoId == -1

ToWorkerMsg(type, id, file) == [type |-> type, id |-> id, file |-> file]

\* terminateWorker() that stops the worker but keeps the reference to it
TerminateWorkerKeepsRef(m) == m

\* terminateWorker()
TerminateWorker(m) ==
    IF m.worker # 0
    THEN [m EXCEPT !.worker = 0, !.workerReady = FALSE, !.listeners = <<>>,
                   !.initOwner = 0, !.toWorker = <<>>, !.wreset = TRUE]
    ELSE m

\* the outermost catch of PDFToDocxProcessor.process
DocxCatch(m, c) ==
    IF m.exc = {} THEN m
    ELSE LET e == CHOOSE x \in m.exc : TRUE
             m1 == [m EXCEPT !.exc = {}, !.call[c].caught = {e}]
         IN Return(TerminateWorker(m1), c,
                   CreateErrorOutput("PROCESSING_FAILED", MessageOf(e)))

\* initWorker(), called by call c: returns at once when this.worker is set;
\* otherwise creates the worker, registers its listeners and posts 'init'.
\* created = FALSE: 'new Worker' threw, the promise is rejected.
InitWorker(m, c, created, t) ==
    IF ~Live(m, c) THEN m
    ELSE IF m.worker # 0 THEN Goto(m, c, "d_afterInit")
    ELSE IF ~created
         THEN Goto([m EXCEPT !.call[c].initP = "rejected",
                             !.call[c].initErr = "boom"], c, "d_awaitInit")
    ELSE Goto([m EXCEPT !.worker = m.stats.workers + 1,
                        !.stats.workers = @ + 1,
                        !.stats.inits = @ + 1,
                        !.initOwner = c,
                        !.listeners = <<>>,
                        !.toWorker = <<ToWorkerMsg("init", t, 0)>>,
                        !.wreset = TRUE,
                        !.call[c].initP = "pending"], c, "d_awaitInit")

\* process(): from the call to the await of initWorker()
DocxStart(m, c, input, created, t) ==
    LET m0 == [Reset(m) EXCEPT !.onProgress = c,
                               !.call[c] = [IdleCall EXCEPT !.inp = input]]
    IN IF input.nfiles # 1
       THEN Escape(Return(m0, c, CreateErrorOutput("INVALID_OPTIONS", "file count")), c)
       ELSE IF ~input.typeOk
       THEN Escape(Return(m0, c, CreateErrorOutput("FILE_TYPE_INVALID", "file type")), c)
       ELSE Escape(DocxCatch(InitWorker(UpdateProgress(m0, c, Pct(10)), c, created, t), c), c)

\* after 'await this.initWorker()': cancellation check, progress 30, and the
\* executor of the conversion promise (listeners registered, 'convert' posted
\* with msgId = 'convert-' + Date.now())
DocxAfterInit(m, c, t) ==
    LET m1 == IF CheckCancelled(m) THEN ReturnCancelled(m, c)
              ELSE LET m2 == UpdateProgress(m, c, Pct(30))
                   IN IF ~Live(m2, c) THEN m2
                      ELSE IF m2.worker = 0
                      THEN Throw(m2, c, [isErr |-> TRUE, msg |-> "Worker not initialized"])
                      ELSE Goto([m2 EXCEPT
                                   !.call[c].msgId = t,
                                   !.call[c].convP = "pending",
                                   !.listeners = Append(@, c),
                                   !.toWorker = Append(@, ToWorkerMsg("convert", t, c))],
                                c, "d_awaitConvert")
    IN Escape(DocxCatch(m1, c), c)

\* the promise of initWorker() has settled
DocxInitSettled(m, c, t) ==
    IF m.call[c].initP = "rejected"
    THEN Escape(Return(m, c, CreateErrorOutput("WORKER_FAILED", m.call[c].initErr)), c)
    ELSE DocxAfterInit(m, c, t)

\* the conversion promise has settled
DocxConvSettled(m, c) ==
    LET k == m.call[c]
        m1 == IF k.convP = "rejected"
              THEN Throw(m, c, [isErr |-> TRUE, msg |-> k.convErr])
              ELSE IF CheckCancelled(m) THEN ReturnCancelled(m, c)
              ELSE Return(UpdateProgress(m, c, Pct(100)), c,
                          CreateSuccessOutput(k.convVal, 0))
    IN Escape(DocxCatch(m1, c), c)

\* what a listener does with a progress report: an exception thrown by the
\* callback leaves the listener and is dropped by the event loop
ListenerProgress(m, p) == [ReportProgress(m, p) EXCEPT !.exc = {}]

\* handleMessage of initWorker()
InitHandleMessage(m, msg) ==
    LET o == m.initOwner IN
    IF o = 0 THEN m
    ELSE IF msg.type = "init-complete"
         THEN [m EXCEPT !.workerReady = TRUE,
                        !.call[o].initP = IF @ = "pending" THEN "resolved" ELSE @]
    ELSE IF msg.type = "status" THEN ListenerProgress(m, 0)
    ELSE IF msg.type = "error"
         THEN IF m.call[o].initP = "pending"
              THEN [m EXCEPT !.call[o].initP = "rejected",
                             !.call[o].initErr = msg.error]
              ELSE m
    ELSE m

RemoveListener(ls, c) == SelectSeq(ls, LAMBDA x : x # c)

\* handleMessage with 'resolve()' in place of 'resolve(result)'
ConvHandleMessageNoValue(m, c, msg) ==
    IF msg.type = "status" THEN ListenerProgress(m, m.progress)
    ELSE IF msg.type = "progress"
         THEN ListenerProgress(m, IF msg.percent # NoId THEN msg.percent ELSE m.progress)
    ELSE IF msg.id # m.call[c].msgId THEN m
    ELSE IF msg.type = "convert-complete"
         THEN [m EXCEPT !.listeners = RemoveListener(@, c),
                        !.call[c].convP = "resolved",
                        !.call[c].convVal = {}]
    ELSE IF msg.type = "error"
         THEN [m EXCEPT !.listeners = RemoveListener(@, c),
                        !.call[c].convP = "rejected",
                        !.call[c].convErr = msg.error]
    ELSE m

\* handleMessage without 'if (id !== msgId) return'
ConvHandleMessageAnyId(m, c, msg) ==
    IF msg.type = "status" THEN ListenerProgress(m, m.progress)
    ELSE IF msg.type = "progress"
         THEN ListenerProgress(m, IF msg.percent # NoId THEN msg.percent ELSE m.progress)
    ELSE IF msg.type = "convert-complete"
         THEN [m EXCEPT !.listeners = RemoveListener(@, c),
                        !.call[c].convP = "resolved",
                        !.call[c].convVal = msg.result]
    ELSE IF msg.type = "error"
         THEN [m EXCEPT !.listeners = RemoveListener(@, c),
                        !.call[c].convP = "rejected",
                        !.call[c].convErr = msg.error]
    ELSE m

\* handleMessage of the conversion promise of call c
ConvHandleMessage(m, c, msg) ==
    IF msg.type = "status" THEN ListenerProgress(m, m.progress)
    ELSE IF msg.type = "progress"
         THEN ListenerProgress(m, IF msg.percent # NoId THEN msg.percent ELSE m.progress)
    ELSE IF msg.id # m.call[c].msgId THEN m
    ELSE IF msg.type = "convert-complete"
         THEN [m EXCEPT !.listeners = RemoveListener(@, c),
                        !.call[c].convP = "resolved",
                        !.call[c].convVal = msg.result]
    ELSE IF msg.type = "error"
         THEN [m EXCEPT !.listeners = RemoveListener(@, c),
                        !.call[c].convP = "rejected",
                        !.call[c].convErr = msg.error]
    ELSE m

\* the message event is dispatched to the conversion listeners registered
\* when it fires, in registration order
RECURSIVE DispatchMessage(_, _, _)
DispatchMessage(m, ls, msg) ==
    IF ls = <<>> THEN m
    ELSE DispatchMessage(ConvHandleMessage(m, Head(ls), msg), Tail(ls), msg)

\* a message event on the worker object
OnWorkerMessage(m, msg) ==
    DispatchMessage(InitHandleMessage(m, msg), m.listeners, msg)

\* handleError of the conversion promise of call c
ConvHandleError(m, c) ==
    [m EXCEPT !.listeners = RemoveListener(@, c),
              !.call[c].convP = "rejected",
              !.call[c].convErr = "Worker error"]

RECURSIVE DispatchError(_, _)
DispatchError(m, ls) ==
    IF ls = <<>> THEN m
    ELSE DispatchError(ConvHandleError(m, Head(ls)), Tail(ls))

\* an error event on the worker object: the error listener of initWorker(),
\* then the handleError listeners
OnWorkerError(m) ==
    LET o == m.initOwner
        m1 == IF o # 0 /\ m.call[o].initP = "pending"
              THEN [m EXCEPT !.call[o].initP = "rejected",
                             !.call[o].initErr = "Worker connection failed"]
              ELSE m
    IN DispatchError(m1, m.listeners)

DocxInputs ==
    {[DefaultInput EXCEPT !.nfiles = n] : n \in {0, 2}}
    \cup {[DefaultInput EXCEPT !.typeOk = FALSE]}
    \cup {[DefaultInput EXCEPT !.cb = cb] : cb \in Callbacks}

\* promise continuations (microtasks) run before the next event is dispatched
MicrotaskPending ==
    \E c \in Calls :
        \/ call[c].pc = "d_afterInit"
        \/ call[c].pc = "d_awaitInit" /\ call[c].initP \in {"resolved", "rejected"}
        \/ call[c].pc = "d_awaitConvert" /\ call[c].convP \in {"resolved", "rejected"}

InitWk ==
    [pyodide |-> FALSE, helpers |-> FALSE, initPromise |-> "null",
     initPc |-> "none", initErr |-> "", inputPdf |-> 0, outputDocx |-> 0,
     starts |-> 0]

\* a main-thread run that may have created or terminated the worker
CommitD(m) ==
    /\ Commit(m)
    /\ IF m.wreset
       THEN wk' = InitWk /\ handlers' = {} /\ toMain' = <<>>
       ELSE UNCHANGED <<wk, handlers, toMain>>
    /\ UNCHANGED <<kind, now, errEvents, fn, tool>>

DStart(c) ==
    /\ kind = "docx" /\ call[c].pc = "idle"
    /\ \E input \in DocxInputs, created \in BOOLEAN :
          CommitD(DocxStart(World, c, input, created, now))

DAfterInit(c) ==
    /\ call[c].pc = "d_afterInit"
    /\ CommitD(DocxAfterInit(World, c, now))

DInitSettled(c) ==
    /\ call[c].pc = "d_awaitInit"
    /\ call[c].initP \in {"resolved", "rejected"}
    /\ CommitD(DocxInitSettled(World, c, now))

DConvSettled(c) ==
    /\ call[c].pc = "d_awaitConvert"
    /\ call[c].convP \in {"resolved", "rejected"}
    /\ CommitD(DocxConvSettled(World, c))

Deliver ==
    /\ worker # 0 /\ toMain # <<>> /\ ~MicrotaskPending
    /\ Commit(OnWorkerMessage(World, Head(toMain)))
    /\ toMain' = Tail(toMain)
    /\ UNCHANGED <<kind, wk, handlers, now, errEvents, fn, tool>>

ErrorEvent ==
    /\ worker # 0 /\ errEvents < MaxErrEvents /\ ~MicrotaskPending
    /\ Commit(OnWorkerError(World))
    /\ errEvents' = errEvents + 1
    /\ UNCHANGED <<kind, toMain, wk, handlers, now, fn, tool>>

Tick ==
    /\ kind = "docx" /\ now < MaxClock
    /\ now' = now + 1
    /\ UNCHANGED <<kind, progress, cancelled, onProgress, worker, workerReady,
                   call, listeners, initOwner, toWorker, toMain, wk, handlers,
                   errEvents, stats, fn, tool>>

----------------------------------------------------------------------------
(* pdf-to-docx.worker.js *)

ToMainMsg(type, id, percent, result, error, req) ==
    [type |-> type, id |-> id, percent |-> percent, result |-> result,
     error |-> error, req |-> req]

StatusMsg == ToMainMsg("status", NoId, NoId, {}, "", 0)
ProgressMsg(h, percent) == ToMainMsg("progress", NoId, Pct(percent), {}, "", h.key)
InitCompleteMsg(h) == ToMainMsg("init-complete", h.id, NoId, {}, "", h.key)
ConvertCompleteMsg(h, bytes) == ToMainMsg("convert-complete", h.id, NoId, {<<bytes>>}, "", h.key)
ErrorMsg(h, error) == ToMainMsg("error", h.id, NoId, {}, error, h.key)

IsTerminal(msg) == msg.type \in {"convert-complete", "error"}

\* the handler h has posted msgs, in this order (history: terminal messages
\* counted, a progress message after the terminal one noted)
RECURSIVE Posted(_, _)
Posted(h, msgs) ==
    IF msgs = <<>> THEN h
    ELSE LET msg == Head(msgs)
             term == msg.type \in {"convert-complete", "error", "init-complete"}
         IN Posted([h EXCEPT !.nTerm = IF term THEN @ + 1 ELSE @,
                             !.late = @ \/ (~term /\ h.nTerm > 0)],
                   Tail(msgs))

\* a catch that logs the error and posts nothing
WorkerCatchSilent(h, error) == [h |-> [h EXCEPT !.pc = "done"], msgs |-> <<>>]

\* the catch of onmessage: the error message with the request's id
WorkerCatch(h, error) ==
    LET msgs == <<ErrorMsg(h, error)>>
    IN [h |-> [Posted(h, msgs) EXCEPT !.pc = "done"], msgs |-> msgs]

\* init() up to its first await: nothing to do when pyodide is set, otherwise
\* the first status message and loadPyodide
InitCallSync(w) ==
    IF w.pyodide
    THEN [w |-> [w EXCEPT !.initPromise = "resolved"], msgs |-> <<>>]
    ELSE [w |-> [w EXCEPT !.initPromise = "pending", !.initPc = "load",
                          !.starts = @ + 1],
          msgs |-> <<StatusMsg>>]

\* 'initPromise = init()' without the test of initPromise
EnsureInitUnguarded(w) == InitCallSync(w)

\* 'if (!initPromise) initPromise = init()'
EnsureInit(w) ==
    IF w.initPromise = "null" THEN InitCallSync(w) ELSE [w |-> w, msgs |-> <<>>]

\* onmessage up to its first await
OnMessageSync(w, msg, key) ==
    LET h0 == [key |-> key, type |-> msg.type, id |-> msg.id, file |-> msg.file,
               pc |-> "w_init", nTerm |-> 0, late |-> FALSE]
    IN IF msg.type = "init"
       THEN LET r == EnsureInit(w) IN [w |-> r.w, h |-> h0, msgs |-> r.msgs]
       ELSE IF ~w.pyodide
       THEN LET r == EnsureInit(w) IN [w |-> r.w, h |-> h0, msgs |-> r.msgs]
       ELSE [w |-> w, h |-> [h0 EXCEPT !.pc = "w_buf"], msgs |-> <<>>]

\* after 'await initPromise'
AfterInitPromise(w, h) ==
    IF w.initPromise = "rejected" THEN WorkerCatch(h, w.initErr)
    ELSE IF h.type = "init"
    THEN LET msgs == <<InitCompleteMsg(h)>>
         IN [h |-> [Posted(h, msgs) EXCEPT !.pc = "done"], msgs |-> msgs]
    ELSE [h |-> [h EXCEPT !.pc = "w_buf"], msgs |-> <<>>]

\* convert, after file.arrayBuffer(): progress 5, pdf_write_input, progress
\* 10, runPythonAsync started
ConvertWrite(w, h, thrown) ==
    IF thrown # {} THEN [w |-> w] @@ WorkerCatch(h, "boom")
    ELSE LET p5 == <<ProgressMsg(h, 5)>>
             h1 == Posted(h, p5)
         IN IF ~w.helpers
            THEN LET r == WorkerCatch(h1, "writeInput is not a function")
                 IN [w |-> w, h |-> r.h, msgs |-> p5 \o r.msgs]
            ELSE LET p10 == <<ProgressMsg(h, 10)>>
                 IN [w |-> [w EXCEPT !.inputPdf = h.file],
                     h |-> [Posted(h1, p10) EXCEPT !.pc = "w_conv"],
                     msgs |-> p5 \o p10]

\* pdf_convert() runs: input.pdf is converted into output.docx
ConvertPython(w, h, thrown) ==
    IF thrown # {} \/ w.inputPdf = 0
    THEN [w |-> w] @@ WorkerCatch(h, "conversion failed")
    ELSE [w |-> [w EXCEPT !.outputDocx = w.inputPdf],
          h |-> [h EXCEPT !.pc = "w_read"], msgs |-> <<>>]

\* after 'await runPythonAsync': progress 85 and 90, pdf_read_result (which
\* removes input.pdf and output.docx), convert-complete
ConvertRead(w, h) ==
    LET p == <<ProgressMsg(h, 85), ProgressMsg(h, 90)>>
        h1 == Posted(h, p)
    IN IF w.outputDocx = 0
       THEN LET r == WorkerCatch(h1, "No such file: output.docx")
            IN [w |-> w, h |-> r.h, msgs |-> p \o r.msgs]
       ELSE LET done == <<ConvertCompleteMsg(h, w.outputDocx)>>
            IN [w |-> [w EXCEPT !.inputPdf = 0, !.outputDocx = 0],
                h |-> [Posted(h1, done) EXCEPT !.pc = "done"],
                msgs |-> p \o done]

WorkerUnchanged ==
    UNCHANGED <<kind, progress, cancelled, onProgress, worker, workerReady, call,
                listeners, initOwner, now, errEvents, stats, fn, tool>>

\* the worker takes the next message: self.onmessage runs to its first await
WkReceive ==
    /\ worker # 0 /\ toWorker # <<>>
    /\ LET r == OnMessageSync(wk, Head(toWorker), Cardinality(handlers) + 1)
       IN /\ wk' = r.w
          /\ handlers' = handlers \cup {r.h}
          /\ toMain' = toMain \o r.msgs
    /\ toWorker' = Tail(toWorker)
    /\ WorkerUnchanged

\* init(): loadPyodide settles
WkInitLoad ==
    /\ worker # 0 /\ wk.initPc = "load"
    /\ \E ok \in BOOLEAN :
          IF ok
          THEN /\ wk' = [wk EXCEPT !.pyodide = TRUE, !.initPc = "install"]
               /\ toMain' = Append(toMain, StatusMsg)
          ELSE /\ wk' = [wk EXCEPT !.initPc = "failed", !.initPromise = "rejected",
                                   !.initErr = "loadPyodide failed"]
               /\ toMain' = toMain
    /\ UNCHANGED <<handlers, toWorker>>
    /\ WorkerUnchanged

\* init(): the dependency packages are installed
WkInitInstall ==
    /\ worker # 0 /\ wk.initPc = "install"
    /\ \E ok \in BOOLEAN :
          IF ok
          THEN /\ wk' = [wk EXCEPT !.initPc = "install2"]
               /\ toMain' = Append(toMain, StatusMsg)
          ELSE /\ wk' = [wk EXCEPT !.initPc = "failed", !.initPromise = "rejected",
                                   !.initErr = "install failed"]
               /\ toMain' = toMain
    /\ UNCHANGED <<handlers, toWorker>>
    /\ WorkerUnchanged

\* init(): pdf2docx is installed, the Python helpers are defined, init returns
WkInitFinish ==
    /\ worker # 0 /\ wk.initPc = "install2"
    /\ \E ok \in BOOLEAN :
          IF ok
          THEN /\ wk' = [wk EXCEPT !.helpers = TRUE, !.initPc = "done",
                                   !.initPromise = "resolved"]
               /\ toMain' = Append(toMain, StatusMsg)
          ELSE /\ wk' = [wk EXCEPT !.initPc = "failed", !.initPromise = "rejected",
                                   !.initErr = "install failed"]
               /\ toMain' = toMain
    /\ UNCHANGED <<handlers, toWorker>>
    /\ WorkerUnchanged

WkAwaitInit ==
    /\ worker # 0 /\ wk.initPromise \in {"resolved", "rejected"}
    /\ \E h \in handlers :
          /\ h.pc = "w_init"
          /\ LET r == AfterInitPromise(wk, h)
             IN /\ handlers' = (handlers \ {h}) \cup {r.h}
                /\ toMain' = toMain \o r.msgs
    /\ UNCHANGED <<wk, toWorker>>
    /\ WorkerUnchanged

WkConvertWrite ==
    /\ worker # 0
    /\ \E h \in handlers, thrown \in {{}, {ErrBoom}} :
          /\ h.pc = "w_buf"
          /\ LET r == ConvertWrite(wk, h, thrown)
             IN /\ wk' = r.w
                /\ handlers' = (handlers \ {h}) \cup {r.h}
                /\ toMain' = toMain \o r.msgs
    /\ UNCHANGED toWorker
    /\ WorkerUnchanged

WkConvertPython ==
    /\ worker # 0
    /\ \E h \in handlers, thrown \in {{}, {ErrBoom}} :
          /\ h.pc = "w_conv"
          /\ LET r == ConvertPython(wk, h, thrown)
             IN /\ wk' = r.w
                /\ handlers' = (handlers \ {h}) \cup {r.h}
                /\ toMain' = toMain \o r.msgs
    /\ UNCHANGED toWorker
    /\ WorkerUnchanged

WkConvertRead ==
    /\ worker # 0
    /\ \E h \in handlers :
          /\ h.pc = "w_read"
          /\ LET r == ConvertRead(wk, h)
             IN /\ wk' = r.w
                /\ handlers' = (handlers \ {h}) \cup {r.h}
                /\ toMain' = toMain \o r.msgs
    /\ UNCHANGED toWorker
    /\ WorkerUnchanged

----------------------------------------------------------------------------
(* The caller: cancel() on the processor instance *)

Cancel ==
    /\ ~cancelled /\ ~MainBusy
    /\ \E c \in Calls : call[c].pc \notin {"idle", "done"}
    /\ cancelled' = TRUE
    /\ UNCHANGED <<kind, progress, onProgress, worker, workerReady, call,
                   listeners, initOwner, toWorker, toMain, wk, handlers, now,
                   errEvents, stats, fn, tool>>

----------------------------------------------------------------------------
(* The pure helpers, called on their own *)

\* A number with a fractional part is kept exactly, as numerator n over
\* denominator d.
Whole(x) == [n |-> x, d |-> 1]

NoSize == [width |-> 0, height |-> 0]

\* WatermarkOptions; an option that is undefined is the empty set, a defined
\* one the singleton of its value.  Opacity and colour components are in
\* hundredths.
NoWatermarkOptions ==
    [type |-> {}, imageType |-> {}, opacity |-> {}, color |-> {}]

\* the opacity and colour handed to page.drawText / page.drawImage
NoDrawn == [opacity |-> {}, r |-> {}, g |-> {}, b |-> {}]

NoFn ==
    [op |-> "none", str |-> <<>>, n |-> 0, pages |-> <<>>, layout |-> NoLayout,
     size |-> NoSize, dpi |-> 0, scale |-> Whole(0),
     raster |-> NoSize, image |-> NoSize,
     views |-> <<>>, cell |-> NoSize, canvas |-> NoSize, place |-> <<>>,
     surface |-> NoSize,
     format |-> "png", rformat |-> "png", quality |-> 0,
     imageEnc |-> [mimeType |-> "", quality |-> {}],
     rasterEnc |-> [mimeType |-> "", quality |-> {}],
     slider |-> 0, options |-> [dpi |-> 0, quality |-> 0],
     wmIn |-> NoWatermarkOptions, wm |-> NoWatermarkOptions,
     embed |-> "", drawn |-> NoDrawn,
     out |-> <<>>, done |-> FALSE]

\* page sizes in hundredths of a point (A4, Letter, A4 landscape, a strip)
PageSizes ==
    {[width |-> 59528, height |-> 84189], [width |-> 61200, height |-> 79200],
     [width |-> 84189, height |-> 59528], [width |-> 10050, height |-> 33]}

\* page.getViewport({ scale }): the page size times the scale, in pixels
\* (numerators over the common denominator d)
GetViewport(size, scale) ==
    [width |-> size.width * scale.n, height |-> size.height * scale.n,
     d |-> 100 * scale.d]

\* canvas.width = viewport.width; canvas.height = viewport.height: the
\* surface has whole pixels, the fraction is dropped
CanvasOf(viewport) ==
    [width |-> viewport.width \div viewport.d,
     height |-> viewport.height \div viewport.d]

\* a scale taken from the dpi with 96 as the reference
RasterizeScalePer96(dpi) == [n |-> dpi, d |-> 96]

\* const scale = rasterizeOptions.dpi / 72
RasterizeScale(dpi) == [n |-> dpi, d |-> 72]

\* the surface RasterizePDFProcessor renders a page to
RasterizeSurface(size, dpi) == CanvasOf(GetViewport(size, RasterizeScale(dpi)))

\* the surface renderPageToImage renders a page to
ImageSurface(size, scale) == CanvasOf(GetViewport(size, scale))

\* Math.max over the viewports of a group, from 0
RECURSIVE MaxOf(_, _, _)
MaxOf(views, side, acc) ==
    IF views = <<>> THEN acc
    ELSE MaxOf(Tail(views), side,
               IF Head(views)[side] > acc THEN Head(views)[side] ELSE acc)

maxCellWidth(views) == MaxOf(views, "width", 0)

maxCellHeight(views) == MaxOf(views, "height", 0)

\* Viewport sizes of the pages of a group, in eighths of a pixel (1, 1.25 and
\* 2.5 pixels): a viewport is the page size times the scale and is seldom a
\* whole number of pixels.
ViewSizes == {[width |-> w, height |-> h] : w \in {8, 10}, h \in {8, 20}}

\* canvas.width = canvasWidth; canvas.height = canvasHeight, in whole pixels
GridCanvas(views, columns, rows) ==
    [width |-> (maxCellWidth(views) * columns) \div 8,
     height |-> (maxCellHeight(views) * rows) \div 8]

\* the position of page i (from 0) taken column-major
GridPositionColumnMajor(views, columns, rows, i) ==
    LET col == i \div rows
        row == i % rows
    IN [col |-> col, row |-> row,
        x |-> col * maxCellWidth(views)
              + (maxCellWidth(views) - views[i + 1].width) \div 2,
        y |-> row * maxCellHeight(views)
              + (maxCellHeight(views) - views[i + 1].height) \div 2]

\* the grid position of page i (from 0) of the group and the offset its
\* rendering is translated by, in eighths of a pixel
GridPosition(views, columns, rows, i) ==
    LET col == i % columns
        row == i \div columns
        cellX == col * maxCellWidth(views)
        cellY == row * maxCellHeight(views)
    IN [col |-> col, row |-> row,
        x |-> cellX + (maxCellWidth(views) - views[i + 1].width) \div 2,
        y |-> cellY + (maxCellHeight(views) - views[i + 1].height) \div 2]

\* the body of the group loop: a group of one page goes to renderPageToImage,
\* any other to renderGridPagesToImage; the result is the surface encoded
GroupSurface(views, columns, rows) ==
    IF Len(views) = 1
    THEN [width |-> views[1].width \div 8, height |-> views[1].height \div 8]
    ELSE GridCanvas(views, columns, rows)

ImageFormats == {"png", "jpg", "jpeg", "webp", "bmp", "tiff"}

FORMAT_MIME_TYPES ==
    [f \in ImageFormats |->
        CASE f = "png" -> "image/png"
          [] f \in {"jpg", "jpeg"} -> "image/jpeg"
          [] f = "webp" -> "image/webp"
          [] f = "bmp" -> "image/bmp"
          [] f = "tiff" -> "image/tiff"]

\* the image formats of RasterizeFormat ('pdf' is the combined-PDF mode)
RasterizeImageFormats == {"png", "jpeg", "webp"}

getMimeType(format) ==
    CASE format = "png" -> "image/png"
      [] format = "jpeg" -> "image/jpeg"
      [] format = "webp" -> "image/webp"
      [] OTHER -> "image/png"

\* quality values of the options, in hundredths
QualityValues == {0, 50, 92, 100}

\* the type and quality arguments of canvas.toBlob in renderPageToImage and
\* renderGridPagesToImage; an undefined quality is the empty set
ImageEncoderArgs(format, quality) ==
    [mimeType |-> FORMAT_MIME_TYPES[format],
     quality |-> IF format \in {"jpg", "jpeg", "webp"} THEN {quality} ELSE {}]

\* the type and quality arguments of canvas.toBlob in the image mode of
\* RasterizePDFProcessor.process
RasterizeEncoderArgs(format, quality) ==
    [mimeType |-> getMimeType(format), quality |-> {quality}]

DpiValues == {72, 96, 144, 150, 300}

\* a ?? d
Nullish(a, d) == IF a = {} THEN {d} ELSE a

\* a || d, for numbers: undefined and 0 are falsy
OrElse(a, d) == IF a = {} \/ a = {0} THEN {d} ELSE a

\* a?.field
Chain(a, field) == IF a = {} THEN {} ELSE {(CHOOSE x \in a : TRUE)[field]}

\* the wmOptions object built by WatermarkProcessor.process: the literal has
\* no imageType property, so reading it gives undefined
NormalizeWatermarkOptions(o) ==
    [type |-> Nullish(o.type, "text"),
     imageType |-> {},
     opacity |-> Nullish(o.opacity, 30),
     color |-> Nullish(o.color, [r |-> 50, g |-> 50, b |-> 50])]

\* the embedding call of an image watermark
EmbedCall(wm) == IF wm.imageType = {"jpg"} THEN "embedJpg" ELSE "embedPng"

\* the opacity of drawText / drawImage and the colour of drawText
DrawnWith(wm) ==
    [opacity |-> OrElse(wm.opacity, 30),
     r |-> IF wm.type = {"text"} THEN OrElse(Chain(wm.color, "r"), 50) ELSE {},
     g |-> IF wm.type = {"text"} THEN OrElse(Chain(wm.color, "g"), 50) ELSE {},
     b |-> IF wm.type = {"text"} THEN OrElse(Chain(wm.color, "b"), 50) ELSE {}]

ColorComponents == {0, 50, 100}

\* caller-supplied watermark options
WatermarkOptionValues ==
    [type : {{"text"}, {"image"}},
     imageType : {{}, {"png"}, {"jpg"}},
     opacity : {{}, {0}, {30}, {100}},
     color : {{}} \cup {{c} : c \in [r : ColorComponents, g : ColorComponents,
                                     b : ColorComponents]}]

\* DPI_PRESETS: the values of the dpi buttons of RasterizePDFTool
DPI_PRESETS == {72, 96, 150, 300, 600}

\* positions of the quality slider of RasterizePDFTool (min 10, max 100)
SliderValues == {10, 50, 85, 100}

\* the options handleRasterize passes to rasterizePDF: the dpi state and the
\* quality state (the slider's number) as they are; quality in hundredths
RasterizeToolOptions(dpi, slider) == [dpi |-> dpi, quality |-> slider * 100]

ScaleValues == {Whole(1), Whole(2), Whole(3), [n |-> 3, d |-> 2]}

RangeChars == {"0", "1", "2", "a", "-", ",", " "}

\* page selections handed to the grouping: every short sequence of page
\* numbers (any order, repetitions allowed) and the whole documents 1..n
GroupSelections ==
    SeqsUpTo(1 .. MaxPages, MaxPages)
    \cup {[j \in 1 .. n |-> j] : n \in 0 .. MaxGroupPages}

FnInputs ==
    {[NoFn EXCEPT !.op = "parse", !.str = str, !.n = n] :
        str \in SeqsUpTo(RangeChars, MaxRangeLen), n \in 1 .. MaxPages}
    \cup
    {[NoFn EXCEPT !.op = "select", !.pages = pg, !.n = n] :
        pg \in SeqsUpTo(0 .. MaxPages + 1, MaxSelLen), n \in 1 .. MaxPages}
    \cup
    {[NoFn EXCEPT !.op = "render", !.size = sz, !.dpi = dpi, !.scale = sc] :
        sz \in PageSizes, dpi \in DpiValues, sc \in ScaleValues}
    \cup
    {f \in {[NoFn EXCEPT !.op = "grid", !.views = vs, !.layout = lay] :
                lay \in {l \in Layouts : l.columns * l.rows > 1 /\ ~l.skipFirstPage},
                vs \in SeqsUpTo(ViewSizes, MaxGroupPages)} :
        Len(f.views) >= 2 /\ Len(f.views) <= f.layout.columns * f.layout.rows}
    \cup
    {f \in {[NoFn EXCEPT !.op = "item", !.views = vs, !.layout = lay] :
                lay \in {l \in Layouts : l.columns * l.rows > 1 /\ ~l.skipFirstPage},
                vs \in SeqsUpTo(ViewSizes, MaxGroupPages)} :
        Len(f.views) >= 1 /\ Len(f.views) <= f.layout.columns * f.layout.rows}
    \cup
    {[NoFn EXCEPT !.op = "encode", !.format = f, !.rformat = rf, !.quality = q] :
        f \in ImageFormats, rf \in RasterizeImageFormats, q \in QualityValues}
    \cup
    {[NoFn EXCEPT !.op = "watermark", !.wmIn = o] : o \in WatermarkOptionValues}
    \cup
    {[NoFn EXCEPT !.op = "options", !.dpi = dpi, !.slider = sl] :
        dpi \in DPI_PRESETS, sl \in SliderValues}
    \cup
    {[NoFn EXCEPT !.op = "group", !.pages = pg, !.layout = lay] :
        pg \in GroupSelections,
        lay \in {l \in Layouts : l.columns * l.rows > 1}}

FnUnchanged ==
    UNCHANGED <<kind, progress, cancelled, onProgress, worker, workerReady, call,
                listeners, initOwner, toWorker, toMain, wk, handlers, now,
                errEvents, stats, tool>>

\* parsePageRange(rangeStr, totalPages) is called
FnParse ==
    /\ kind = "fn" /\ fn.op = "parse" /\ ~fn.done
    /\ fn' = [fn EXCEPT !.out = parsePageRange(fn.str, fn.n), !.done = TRUE]
    /\ FnUnchanged

\* the page selection of PDFToImageProcessor.process is computed
FnSelect ==
    /\ kind = "fn" /\ fn.op = "select" /\ ~fn.done
    /\ fn' = [fn EXCEPT !.out = PagesToConvert(fn.pages, fn.n), !.done = TRUE]
    /\ FnUnchanged

\* the page groups of PDFToImageProcessor.process are computed
FnGroup ==
    /\ kind = "fn" /\ fn.op = "group" /\ ~fn.done
    /\ fn' = [fn EXCEPT
                 !.out = PageGroups(fn.pages, fn.layout.columns * fn.layout.rows,
                                    fn.layout.skipFirstPage),
                 !.done = TRUE]
    /\ FnUnchanged

\* one page is rendered by both processors
FnRender ==
    /\ kind = "fn" /\ fn.op = "render" /\ ~fn.done
    /\ fn' = [fn EXCEPT !.raster = RasterizeSurface(fn.size, fn.dpi),
                        !.image = ImageSurface(fn.size, fn.scale),
                        !.done = TRUE]
    /\ FnUnchanged

\* renderGridPagesToImage lays a group out
FnGrid ==
    /\ kind = "fn" /\ fn.op = "grid" /\ ~fn.done
    /\ fn' = [fn EXCEPT
                 !.cell = [width |-> maxCellWidth(fn.views),
                           height |-> maxCellHeight(fn.views)],
                 !.canvas = GridCanvas(fn.views, fn.layout.columns, fn.layout.rows),
                 !.place = [j \in 1 .. Len(fn.views) |->
                               GridPosition(fn.views, fn.layout.columns,
                                            fn.layout.rows, j - 1)],
                 !.done = TRUE]
    /\ FnUnchanged

\* one group of the group loop is rendered
FnItem ==
    /\ kind = "fn" /\ fn.op = "item" /\ ~fn.done
    /\ fn' = [fn EXCEPT
                 !.surface = GroupSurface(fn.views, fn.layout.columns, fn.layout.rows),
                 !.done = TRUE]
    /\ FnUnchanged

\* a rendered canvas is handed to the encoder by both processors
FnEncode ==
    /\ kind = "fn" /\ fn.op = "encode" /\ ~fn.done
    /\ fn' = [fn EXCEPT !.imageEnc = ImageEncoderArgs(fn.format, fn.quality),
                        !.rasterEnc = RasterizeEncoderArgs(fn.rformat, fn.quality),
                        !.done = TRUE]
    /\ FnUnchanged

\* WatermarkProcessor.process normalizes the options and draws the watermark
\* on a page (text and imageData supplied as the type requires)
FnWatermark ==
    /\ kind = "fn" /\ fn.op = "watermark" /\ ~fn.done
    /\ LET wm == NormalizeWatermarkOptions(fn.wmIn)
       IN fn' = [fn EXCEPT !.wm = wm,
                           !.embed = IF wm.type = {"image"} THEN EmbedCall(wm) ELSE "",
                           !.drawn = DrawnWith(wm),
                           !.done = TRUE]
    /\ FnUnchanged

\* RasterizePDFTool.handleRasterize builds the options of rasterizePDF
FnOptions ==
    /\ kind = "fn" /\ fn.op = "options" /\ ~fn.done
    /\ fn' = [fn EXCEPT !.options = RasterizeToolOptions(fn.dpi, fn.slider),
                        !.done = TRUE]
    /\ FnUnchanged

----------------------------------------------------------------------------
(* PDFToImageTool.tsx: the component's state hooks, cancelledRef, and the   *)
(* handleConvert invocations that have not returned yet.  pdfToImages() is  *)
(* seen from the component: it calls the progress callback any number of    *)
(* times, then its promise resolves with an envelope or rejects.            *)

\* useState initial values, useRef(false); no handleConvert has run
NoTool ==
    [file |-> FALSE, status |-> "idle", progress |-> 0, result |-> 0,
     error |-> "", cancelledRef |-> FALSE, runs |-> <<>>]

\* one handleConvert invocation (history: the user pressed Cancel while it
\* was in flight; what it wrote to the component's state after that)
NewRun == [pc |-> "awaiting", userCancelled |-> FALSE, published |-> {}]

ToolProgressValues == {10, 50, 100}

isProcessing(t) == t.status \in {"processing", "uploading"}

canConvert(t) == t.file /\ ~isProcessing(t)

\* handleFilesSelected with one file
handleFilesSelected(t) == [t EXCEPT !.file = TRUE, !.error = "", !.result = 0]

\* handleRemoveFile
handleRemoveFile(t) ==
    [t EXCEPT !.file = FALSE, !.result = 0, !.error = "", !.status = "idle",
              !.progress = 0]

\* handleConvert up to 'await pdfToImages(...)'
handleConvert(t) ==
    IF ~t.file THEN [t EXCEPT !.error = "Please upload a PDF file."]
    ELSE [t EXCEPT !.cancelledRef = FALSE, !.status = "processing",
                   !.progress = 0, !.error = "", !.result = 0,
                   !.runs = Append(@, NewRun)]

\* handleCancel
handleCancel(t) ==
    [t EXCEPT !.cancelledRef = TRUE, !.status = "idle", !.progress = 0,
              !.runs = [i \in DOMAIN @ |->
                           IF @[i].pc = "awaiting"
                           THEN [@[i] EXCEPT !.userCancelled = TRUE] ELSE @[i]]]

\* run i writes the state hooks named in 'what'
Publish(t, i, what) ==
    IF t.runs[i].userCancelled
    THEN [t EXCEPT !.runs[i].published = @ \cup what]
    ELSE t

\* the progress callback handleConvert passes to pdfToImages
ProgressCallback(t, i, prog) ==
    IF ~t.cancelledRef
    THEN Publish([t EXCEPT !.progress = prog], i, {"progress"})
    ELSE t

\* setStatus by run i
SetStatus(t, i, status) ==
    LET t1 == [t EXCEPT !.status = status]
    IN IF t.status # status THEN Publish(t1, i, {"status"}) ELSE t1

\* handleConvert after 'await pdfToImages(...)' has returned the envelope
\* (success: output.success && output.result)
AfterConvert(t, i, success) ==
    LET t0 == [t EXCEPT !.runs[i].pc = "returned"]
    IN IF t.cancelledRef THEN SetStatus(t0, i, "idle")
       ELSE IF success
       THEN SetStatus(Publish([t0 EXCEPT !.result = i], i, {"result"}),
                      i, "complete")
       ELSE SetStatus(Publish([t0 EXCEPT !.error = "Failed to convert PDF to images."],
                              i, {"error"}),
                      i, "error")

\* the catch of handleConvert: pdfToImages rejected
ConvertCatch(t, i) ==
    LET t0 == [t EXCEPT !.runs[i].pc = "returned"]
    IN IF ~t.cancelledRef
       THEN SetStatus(Publish([t0 EXCEPT !.error = "An unexpected error occurred."],
                              i, {"error"}),
                      i, "error")
       ELSE t0

ToolUnchanged ==
    UNCHANGED <<kind, progress, cancelled, onProgress, worker, workerReady, call,
                listeners, initOwner, toWorker, toMain, wk, handlers, now,
                errEvents, stats, fn>>

\* the uploader hands over a file (disabled while processing)
ToolFilesSelected ==
    /\ kind = "tool" /\ ~isProcessing(tool)
    /\ tool' = handleFilesSelected(tool)
    /\ ToolUnchanged

\* the remove button of the file card
ToolRemoveFile ==
    /\ kind = "tool" /\ tool.file /\ ~isProcessing(tool)
    /\ tool' = handleRemoveFile(tool)
    /\ ToolUnchanged

\* the Convert button (disabled unless canConvert)
ToolConvert ==
    /\ kind = "tool" /\ canConvert(tool) /\ Len(tool.runs) < MaxRuns
    /\ tool' = handleConvert(tool)
    /\ ToolUnchanged

\* the Cancel button of ProcessingProgress (rendered while processing)
ToolCancel ==
    /\ kind = "tool" /\ isProcessing(tool)
    /\ tool' = handleCancel(tool)
    /\ ToolUnchanged

\* pdfToImages of run i reports progress
ToolProgress ==
    /\ kind = "tool"
    /\ \E i \in DOMAIN tool.runs, prog \in ToolProgressValues :
          /\ tool.runs[i].pc = "awaiting"
          /\ tool' = ProgressCallback(tool, i, prog)
    /\ ToolUnchanged

\* the promise of pdfToImages of run i resolves
ToolResolve ==
    /\ kind = "tool"
    /\ \E i \in DOMAIN tool.runs, success \in BOOLEAN :
          /\ tool.runs[i].pc = "awaiting"
          /\ tool' = AfterConvert(tool, i, success)
    /\ ToolUnchanged

\* the promise of pdfToImages of run i rejects
ToolReject ==
    /\ kind = "tool"
    /\ \E i \in DOMAIN tool.runs :
          /\ tool.runs[i].pc = "awaiting"
          /\ tool' = ConvertCatch(tool, i)
    /\ ToolUnchanged

----------------------------------------------------------------------------

Init ==
    /\ kind \in Kinds
    /\ progress = 0
    /\ cancelled = FALSE
    /\ onProgress = 0
    /\ worker = 0
    /\ workerReady = FALSE
    /\ call = [c \in Calls |-> IdleCall]
    /\ listeners = <<>>
    /\ initOwner = 0
    /\ toWorker = <<>>
    /\ toMain = <<>>
    /\ wk = InitWk
    /\ handlers = {}
    /\ now = 0
    /\ errEvents = 0
    /\ stats = [workers |-> 0, inits |-> 0]
    /\ fn = NoFn
    /\ tool = NoTool

Next ==
    \/ \E c \in Calls : RStart(c)
    \/ \E c \in Calls : RLib(c)
    \/ \E c \in Calls : RDoc(c)
    \/ \E c \in Calls : RImport(c)
    \/ \E c \in Calls : RPage(c)
    \/ \E c \in Calls : RZip(c)
    \/ \E c \in Calls : IStart(c)
    \/ \E c \in Calls : ILib(c)
    \/ \E c \in Calls : IDoc(c)
    \/ \E c \in Calls : IItem(c)
    \/ \E c \in Calls : IGroup(c)
    \/ \E c \in Calls : WStart(c)
    \/ \E c \in Calls : WLib(c)
    \/ \E c \in Calls : WDoc(c)
    \/ \E c \in Calls : WEmbed(c)
    \/ \E c \in Calls : WSave(c)
    \/ \E c \in Calls : DStart(c)
    \/ \E c \in Calls : DAfterInit(c)
    \/ \E c \in Calls : DInitSettled(c)
    \/ \E c \in Calls : DConvSettled(c)
    \/ Deliver
    \/ ErrorEvent
    \/ Tick
    \/ WkReceive
    \/ WkInitLoad
    \/ WkInitInstall
    \/ WkInitFinish
    \/ WkAwaitInit
    \/ WkConvertWrite
    \/ WkConvertPython
    \/ WkConvertRead
    \/ Cancel

Spec == Init /\ [][Next]_vars

----------------------------------------------------------------------------
(* The worker alone, fed by an arbitrary main thread: any init and convert  *)
(* messages, with any ids, in any order.  The worker's event loop runs every *)
(* continuation whose await has settled, hence the weak fairness.           *)

EnvPost ==
    /\ kind = "worker"
    /\ Len(toWorker) + Cardinality(handlers) < MaxEnvMsgs
    /\ \E type \in {"init", "convert"}, id \in 0 .. MaxClock, file \in Calls :
          toWorker' = Append(toWorker,
                             ToWorkerMsg(type, id, IF type = "init" THEN 0 ELSE file))
    /\ UNCHANGED <<toMain, wk, handlers>>
    /\ WorkerUnchanged

InitWorkerOnly ==
    /\ kind = "worker"
    /\ progress = 0
    /\ cancelled = FALSE
    /\ onProgress = 0
    /\ worker = 1
    /\ workerReady = FALSE
    /\ call = [c \in Calls |-> IdleCall]
    /\ listeners = <<>>
    /\ initOwner = 0
    /\ toWorker = <<>>
    /\ toMain = <<>>
    /\ wk = InitWk
    /\ handlers = {}
    /\ now = 0
    /\ errEvents = 0
    /\ stats = [workers |-> 1, inits |-> 0]
    /\ fn = NoFn
    /\ tool = NoTool

NextWorker ==
    \/ EnvPost
    \/ WkReceive
    \/ WkInitLoad
    \/ WkInitInstall
    \/ WkInitFinish
    \/ WkAwaitInit
    \/ WkConvertWrite
    \/ WkConvertPython
    \/ WkConvertRead

WorkerFairness ==
    /\ WF_vars(WkReceive)
    /\ WF_vars(WkInitLoad)
    /\ WF_vars(WkInitInstall)
    /\ WF_vars(WkInitFinish)
    /\ WF_vars(WkAwaitInit)
    /\ WF_vars(WkConvertWrite)
    /\ WF_vars(WkConvertPython)
    /\ WF_vars(WkConvertRead)

SpecWorker == InitWorkerOnly /\ [][NextWorker]_vars /\ WorkerFairness

----------------------------------------------------------------------------
(* The pure helpers alone, on every argument within the bounds *)

InitFn ==
    /\ kind = "fn"
    /\ progress = 0
    /\ cancelled = FALSE
    /\ onProgress = 0
    /\ worker = 0
    /\ workerReady = FALSE
    /\ call = [c \in Calls |-> IdleCall]
    /\ listeners = <<>>
    /\ initOwner = 0
    /\ toWorker = <<>>
    /\ toMain = <<>>
    /\ wk = InitWk
    /\ handlers = {}
    /\ now = 0
    /\ errEvents = 0
    /\ stats = [workers |-> 0, inits |-> 0]
    /\ fn \in FnInputs
    /\ tool = NoTool

NextFn ==
    \/ FnParse
    \/ FnSelect
    \/ FnGroup
    \/ FnRender
    \/ FnGrid
    \/ FnItem
    \/ FnEncode
    \/ FnOptions
    \/ FnWatermark

SpecFn == InitFn /\ [][NextFn]_vars

----------------------------------------------------------------------------
(* PDFToImageTool alone: the user's clicks and the conversions' callbacks   *)
(* and completions in any order                                             *)

InitTool ==
    /\ kind = "tool"
    /\ progress = 0
    /\ cancelled = FALSE
    /\ onProgress = 0
    /\ worker = 0
    /\ workerReady = FALSE
    /\ call = [c \in Calls |-> IdleCall]
    /\ listeners = <<>>
    /\ initOwner = 0
    /\ toWorker = <<>>
    /\ toMain = <<>>
    /\ wk = InitWk
    /\ handlers = {}
    /\ now = 0
    /\ errEvents = 0
    /\ stats = [workers |-> 0, inits |-> 0]
    /\ fn = NoFn
    /\ tool = NoTool

NextTool ==
    \/ ToolFilesSelected
    \/ ToolRemoveFile
    \/ ToolConvert
    \/ ToolCancel
    \/ ToolProgress
    \/ ToolResolve
    \/ ToolReject

SpecTool == InitTool /\ [][NextTool]_vars

----------------------------------------------------------------------------
(* Properties *)

Done(c) == call[c].pc = "done"
Settled == {"resolved", "rejected"}
Outstanding(c) == call[c].pc = "d_awaitConvert" /\ call[c].convP = "pending"

\* C1: the envelope a process() call returns has exactly one of result and
\* error populated, and success is true exactly when error is absent, for
\* every processor and every outcome of its phases.
C1_EnvelopeExclusive ==
    \A c \in Calls :
        Done(c) /\ ~call[c].rejected =>
            /\ Cardinality(call[c].out) = 1
            /\ \A e \in call[c].out :
                  /\ (e.result = {}) # (e.error = {})
                  /\ e.success <=> (e.error = {})

\* two pdf-to-docx calls on one instance have returned, one with a result and
\* one with an error
C1_Witness ==
    /\ kind = "docx"
    /\ \E c, d \in Calls :
          /\ Done(c) /\ Done(d)
          /\ \E e \in call[c].out : e.success /\ e.result # {}
          /\ \E e \in call[d].out : ~e.success /\ e.error # {}

\* an exception reached the outermost catch of call c, and the spec does not
\* class it as an encrypted-document error
Unexpected(c, e) ==
    /\ e \in call[c].caught
    /\ ~(kind = "rasterize" /\ e.isErr /\ IncludesEncrypt(e.msg))

C3_ProgressMonotone ==
    \A c \in Calls :
        Done(c) /\ (\E e \in call[c].out : e.success) =>
            call[c].mono /\ call[c].last = Pct(100)

CancelledEnvelope == CreateErrorOutput("PROCESSING_CANCELLED", "")

\* C4: once a per-item cancellation check has run with the flag set, the call
\* has resolved with PROCESSING_CANCELLED and no result, whatever was rendered
\* before.
C4_CancelAtCheck ==
    \A c \in Calls :
        call[c].sawCancel => Done(c) /\ call[c].out = {CancelledEnvelope}

\* a call was cancelled at the check of a later iteration, after an item had
\* been rendered
C4_Witness ==
    \E c \in Calls :
        /\ kind \in {"rasterize", "image"}
        /\ call[c].sawCancel
        /\ Len(call[c].images) >= 1
        /\ call[c].i < Len(call[c].pages)
        /\ call[c].out = {CancelledEnvelope}

\* C5: when some but not all items of a render loop throw, the call succeeds
\* with every item that rendered (calls ended by cancellation or by an
\* exception outside the rendering are not concerned).
C5_PartialFailureIsolated ==
    \A c \in Calls :
        ( /\ kind \in {"rasterize", "image"}
          /\ Done(c)
          /\ call[c].envFail > 0
          /\ call[c].envOk # <<>>
          /\ call[c].caught = {}
          /\ call[c].out # {CancelledEnvelope} )
        => \E e \in call[c].out : e.success /\ e.result = {call[c].envOk}

\* C6: no convert request is posted to a worker whose init-complete has not
\* been received, and while no call has returned there is one worker and one
\* init message.
C6_SingleFlight ==
    /\ \A j \in 1 .. Len(toWorker) :
          toWorker[j].type = "convert" => workerReady
    /\ (\A c \in Calls : ~Done(c)) => stats.workers <= 1 /\ stats.inits <= 1

\* C7: every convert request the worker receives is eventually answered; it
\* is answered by exactly one terminal message, which carries the request's
\* id, and no progress message of the request follows it.
C7_OneTerminal ==
    /\ [](\A h \in handlers :
            h.type = "convert" =>
                /\ h.nTerm <= 1
                /\ ~h.late
                /\ (h.pc = "done") <=> (h.nTerm = 1))
    /\ [](\A j \in 1 .. Len(toMain) :
            IsTerminal(toMain[j]) =>
                \E h \in handlers : h.key = toMain[j].req /\ h.id = toMain[j].id)
    /\ \A key \in 1 .. MaxEnvMsgs :
          (\E h \in handlers : h.key = key /\ h.type = "convert")
              ~> (\E h \in handlers : h.key = key /\ h.pc = "done" /\ h.nTerm = 1)

\* two convert requests have been answered, one with convert-complete and one
\* with error
C7_Witness ==
    /\ kind = "worker"
    /\ \E h, g \in handlers :
          /\ h.type = "convert" /\ g.type = "convert" /\ h.key # g.key
          /\ h.pc = "done" /\ g.pc = "done"
          /\ \E j, l \in 1 .. Len(toMain) :
                /\ toMain[j].req = h.key /\ toMain[j].type = "convert-complete"
                /\ toMain[l].req = g.key /\ toMain[l].type = "error"

\* C8: a pending conversion promise is settled by a message only when the
\* message is convert-complete or error with the request's own id (the other
\* settlement is the worker's error event).
C8_SettledByOwnId ==
    [][\A c \in Calls :
          call[c].convP = "pending" /\ call'[c].convP \in Settled =>
              \/ errEvents' # errEvents
              \/ /\ toMain # <<>>
                 /\ IsTerminal(Head(toMain))
                 /\ Head(toMain).id = call[c].msgId]_vars

\* one request has been settled by its terminal message while another
\* request, with another id, is still pending
C8_Witness ==
    \E c, d \in Calls :
        /\ call[c].convP = "resolved"
        /\ Outstanding(d)
        /\ call[c].msgId # call[d].msgId

\* C9: no two conversion requests outstanding on the worker share an id.
C9_FreshIds ==
    \A c, d \in Calls :
        c # d /\ Outstanding(c) /\ Outstanding(d) => call[c].msgId # call[d].msgId

\* C10: at most one convert request is outstanding on the worker.
C10_OneOutstanding ==
    Cardinality({c \in Calls : Outstanding(c)}) <= 1

TransportError == "Worker error"

\* C11: when the conversion promise was rejected by the worker's error event,
\* the call resolves with PROCESSING_FAILED and leaves the processor with no
\* worker and workerReady false; and a call that starts while there is no
\* worker creates a new one and posts a new init message to it.
C11_TransportTeardown ==
    [][\A c \in Calls :
          /\ ( /\ call[c].pc = "d_awaitConvert"
               /\ call[c].convP = "rejected"
               /\ call[c].convErr = TransportError
               /\ call'[c].pc # call[c].pc )
             => /\ call'[c].pc = "done"
                /\ call'[c].out = {CreateErrorOutput("PROCESSING_FAILED", TransportError)}
                /\ worker' = 0
                /\ ~workerReady'
          /\ ( /\ worker = 0
               /\ call[c].pc = "idle"
               /\ call'[c].pc = "d_awaitInit"
               /\ call'[c].initP = "pending" )
             => /\ worker' = stats.workers + 1
                /\ stats'.inits = stats.inits + 1
                /\ toWorker' = <<ToWorkerMsg("init", now, 0)>>
                /\ wk' = InitWk]_vars

\* a call has failed on the worker's error event, and the next call has
\* created a second worker and is waiting for its handshake
C11_Witness ==
    \E c, d \in Calls :
        /\ Done(c)
        /\ call[c].out = {CreateErrorOutput("PROCESSING_FAILED", TransportError)}
        /\ call[d].pc = "d_awaitInit" /\ call[d].initP = "pending"
        /\ worker = 2 /\ stats.inits = 2

OnlyCall(c) == \A d \in Calls \ {c} : call[d].pc = "idle"

\* C12: after the only call made so far has failed on an error message of the
\* worker carrying its id, the worker is still there and ready.
C12_AppErrorKeepsWorker ==
    \A c \in Calls :
        ( /\ Done(c) /\ OnlyCall(c)
          /\ call[c].convP = "rejected"
          /\ call[c].convErr # TransportError )
        => worker # 0 /\ workerReady

\* C13: after the only call made so far has resolved with WORKER_FAILED, the
\* processor holds no worker.
C13_InitFailureTornDown ==
    \A c \in Calls :
        ( /\ Done(c) /\ OnlyCall(c)
          /\ call[c].out = {CreateErrorOutput("WORKER_FAILED", call[c].initErr)} )
        => worker = 0

InFlight(c) == call[c].pc \notin {"idle", "done"}

\* C14: while call c is in flight, the start of another call d leaves the
\* cancellation flag set for c as it is, and a step of process() of call c
\* passes no percentage to the callback of another call.
C14_ProgressOwned ==
    [][\A c, d \in Calls :
          c # d /\ InFlight(c) =>
              /\ (call[d].pc = "idle" /\ call'[d].pc # "idle" /\ cancelled)
                    => cancelled'
              /\ (call'[c].pc # call[c].pc)
                    => call'[d].last = call[d].last]_vars

FileCountEnvelope == CreateErrorOutput("INVALID_OPTIONS", "file count")

\* C15: a call whose input does not hold exactly one file has resolved with
\* INVALID_OPTIONS in the run that started it: no callback was called, nothing
\* was loaded, and the worker, the messages posted to it and the other calls
\* are as they were.
C15_FileCountFirst ==
    [][\A c \in Calls :
          (call[c].pc = "idle" /\ call'[c].pc # "idle" /\ call'[c].inp.nfiles # 1)
          => /\ call'[c] = [IdleCall EXCEPT !.inp = call'[c].inp,
                                             !.pc = "done",
                                             !.out = {FileCountEnvelope}]
             /\ \A d \in Calls \ {c} : call'[d] = call[d]
             /\ worker' = worker
             /\ toWorker' = toWorker
             /\ stats' = stats]_vars

\* a pdf-to-docx call with no file has resolved while another call was
\* waiting for the worker
C15_Witness ==
    \E c, d \in Calls :
        /\ Done(c) /\ call[c].inp.nfiles = 0
        /\ call[c].out = {FileCountEnvelope}
        /\ call[c].last = -1
        /\ call[d].pc = "d_awaitInit" /\ worker # 0

\* C16: a call given one file that is not a PDF by MIME type or by name has
\* resolved with FILE_TYPE_INVALID in the run that started it, before any
\* library or document load, in every processor.
C16_FileTypeChecked ==
    \A c \in Calls :
        (call[c].pc # "idle" /\ call[c].inp.nfiles = 1 /\ ~call[c].inp.typeOk)
        => /\ Done(c)
           /\ call[c].out = {CreateErrorOutput("FILE_TYPE_INVALID", "file type")}

AllDigits(str) == str # <<>> /\ \A i \in 1 .. Len(str) : str[i] \in Digits

\* what a token of a range expression denotes: a page number, or an interval
\* 'a-b' of page numbers with a <= b; anything else is invalid and denotes
\* nothing
TokenInterval(token) ==
    LET t == Trim(token)
        pieces == Split(t, "-")
    IN IF AllDigits(t) THEN {DigitsPrefix(t, 0)}
       ELSE IF Len(pieces) = 2 /\ AllDigits(Trim(pieces[1])) /\ AllDigits(Trim(pieces[2]))
       THEN DigitsPrefix(Trim(pieces[1]), 0) .. DigitsPrefix(Trim(pieces[2]), 0)
       ELSE {}

ParseCalled == kind = "fn" /\ fn.op = "parse" /\ fn.done

\* C17: for a range string that is not blank, parsePageRange returns, in
\* strictly increasing order, exactly the pages of 1..N that lie in the
\* interval of one of its valid tokens; invalid tokens add nothing.
C17_ParseIsUnionOfValidTokens ==
    (ParseCalled /\ Trim(fn.str) # <<>>) =>
        LET tokens == Split(fn.str, ",")
        IN fn.out = SortedSeq(UNION {TokenInterval(tokens[j]) \cap (1 .. fn.n) :
                                        j \in 1 .. Len(tokens)})

AllPages(n) == [j \in 1 .. n |-> j]

\* C18: a range string that is empty or holds only white space gives every
\* page 1..N in parsePageRange, and an empty pages option gives every page
\* 1..N in the page selection of pdf-to-image.
C18_BlankIsAll ==
    /\ (ParseCalled /\ Trim(fn.str) = <<>>) => fn.out = AllPages(fn.n)
    /\ (kind = "fn" /\ fn.op = "select" /\ fn.done /\ fn.pages = <<>>)
          => fn.out = AllPages(fn.n)

\* parsePageRange was called with two blanks for a document of three pages
C18_Witness ==
    /\ ParseCalled
    /\ fn.str = <<" ", " ">> /\ fn.n = 3
    /\ fn.out = <<1, 2, 3>>

\* the document of call c was loaded and its non-empty page selection names
\* no page of it
SelectsNoPage(c) ==
    /\ call[c].total > 0
    /\ \/ /\ kind = "rasterize"
          /\ Trim(call[c].inp.pageRange) # <<>>
          /\ parsePageRange(call[c].inp.pageRange, call[c].total) = <<>>
       \/ /\ kind = "image"
          /\ call[c].inp.pages # <<>>
          /\ PagesToConvert(call[c].inp.pages, call[c].total) = <<>>

\* C19: a call whose non-empty page selection names no page of the document
\* resolves with INVALID_PAGE_RANGE and has rendered no page, in rasterize and
\* in pdf-to-image (calls ended by an exception are not concerned).
C19_NoValidPage ==
    \A c \in Calls :
        (Done(c) /\ SelectsNoPage(c) /\ call[c].caught = {})
        => /\ call[c].out = {CreateErrorOutput("INVALID_PAGE_RANGE", "No valid pages")}
           /\ call[c].envOk = <<>>

RECURSIVE Flatten(_)
Flatten(groups) ==
    IF groups = <<>> THEN <<>> ELSE Head(groups) \o Flatten(Tail(groups))

\* every group but the last has exactly size pages; the last has 1..size
Batches(groups, size) ==
    \A i \in 1 .. Len(groups) :
        /\ Len(groups[i]) >= 1
        /\ Len(groups[i]) <= size
        /\ i < Len(groups) => Len(groups[i]) = size

GroupCalled == kind = "fn" /\ fn.op = "group" /\ fn.done

\* C20: for a grid of more than one cell, the page groups joined in order are
\* the selection; with skipFirstPage the first group is the first selected
\* page alone and the other groups are batches of columns*rows pages, without
\* it all groups are such batches; only the last batch may be smaller.
C20_GroupsPartition ==
    GroupCalled =>
        LET size == fn.layout.columns * fn.layout.rows
            groups == fn.out
        IN /\ Flatten(groups) = fn.pages
           /\ IF fn.layout.skipFirstPage /\ fn.pages # <<>>
              THEN /\ Head(groups) = <<fn.pages[1]>>
                   /\ Batches(Tail(groups), size)
              ELSE Batches(groups, size)
           /\ (fn.pages = <<1, 2, 3, 4, 5>> /\ size = 4) =>
                 groups = IF fn.layout.skipFirstPage
                          THEN <<<<1>>, <<2, 3, 4, 5>>>>
                          ELSE <<<<1, 2, 3, 4>>, <<5>>>>

\* five pages were grouped on a 2x2 grid with the cover page apart
C20_Witness ==
    /\ GroupCalled
    /\ fn.pages = <<1, 2, 3, 4, 5>>
    /\ fn.layout = [columns |-> 2, rows |-> 2, skipFirstPage |-> TRUE]
    /\ fn.out = <<<<1>>, <<2, 3, 4, 5>>>>

\* C21: whatever pageLayout the options carry, the page-grouping loop of
\* PDFToImageProcessor.process ends: no call stays inside it with a stride
\* columns*rows that is not positive, and every group it forms is non-empty.
C21_GroupingEnds ==
    \A c \in Calls :
        kind = "image" =>
            /\ call[c].pc = "i_grouping" =>
                   call[c].inp.layout.columns * call[c].inp.layout.rows > 0
            /\ \A j \in 1 .. Len(call[c].pages) : call[c].pages[j] # <<>>

\* the document load of call c failed because the document is encrypted
EncryptedLoad(c) ==
    /\ kind \in {"rasterize", "image"}
    /\ \E e \in call[c].docErr : e.isErr /\ IncludesEncrypt(e.msg)

\* C22: in rasterize and in pdf-to-image, a call whose document load failed
\* because of encryption resolves with the error code PDF_ENCRYPTED.
C22_EncryptedDistinct ==
    \A c \in Calls :
        (EncryptedLoad(c) /\ Done(c)) =>
            \E env \in call[c].out :
                \E err \in env.error : err.code = "PDF_ENCRYPTED"

\* C23: a call whose progress callback received the percentage 100 resolves
\* with a success envelope, in every processor.
C23_HundredOnlyOnSuccess ==
    \A c \in Calls :
        (Done(c) /\ call[c].hundred) =>
            /\ ~call[c].rejected
            /\ \A env \in call[c].out : env.success

\* C24: the progress callback of a PDFToDocxProcessor call is never invoked
\* after that call's promise has resolved, whatever worker message arrives
\* later.
C24_NoCallbackAfterResolve ==
    \A c \in Calls : kind = "docx" => ~call[c].afterDone

RenderCalled == kind = "fn" /\ fn.op = "render" /\ fn.done

\* C25: the rasterize processor renders at scale dpi / 72 (its surface is
\* the page size times dpi over 72, in whole pixels), so at dpi = 144 its
\* surface has the width and height of the pdf-to-image surface at scale 2,
\* for every page size.
C25_DpiScaleEquivalence ==
    RenderCalled =>
        /\ fn.raster.width = (fn.size.width * fn.dpi) \div 7200
        /\ fn.raster.height = (fn.size.height * fn.dpi) \div 7200
        /\ (fn.dpi = 144 /\ fn.scale = Whole(2)) => fn.raster = fn.image

\* an A4 page was rendered at 144 dpi and at scale 2: 1190 by 1683 pixels
C25_Witness ==
    /\ RenderCalled
    /\ fn.size = [width |-> 59528, height |-> 84189]
    /\ fn.dpi = 144 /\ fn.scale = Whole(2)
    /\ fn.raster = [width |-> 1190, height |-> 1683]
    /\ fn.image = [width |-> 1190, height |-> 1683]

\* C26: in the combined-PDF mode of the rasterize processor, a call that
\* runs its loop to the end with at least one page rendered succeeds with a
\* document holding every rendered page in order, the first rendered page
\* opening it, whether or not the first selected page rendered.
C26_FirstRenderedOpensDocument ==
    \A c \in Calls :
        ( /\ kind = "rasterize"
          /\ call[c].inp.format = "pdf"
          /\ Done(c)
          /\ call[c].caught = {}
          /\ call[c].out # {CancelledEnvelope}
          /\ call[c].envOk # <<>> )
        => /\ call[c].pdfOutput
           /\ \E e \in call[c].out : e.success /\ e.result = {call[c].envOk}

SelectCalled == kind = "fn" /\ fn.op = "select" /\ fn.done

\* C27: the page list PDFToImageProcessor converts is strictly increasing
\* (hence free of duplicates) and within 1..totalPages, whatever the order
\* and repetitions of the pages option.
C27_SelectionIsPageSelection ==
    SelectCalled =>
        /\ \A j \in 1 .. Len(fn.out) : fn.out[j] >= 1 /\ fn.out[j] <= fn.n
        /\ \A j \in 1 .. Len(fn.out) - 1 : fn.out[j] < fn.out[j + 1]

GridCalled == kind = "fn" /\ fn.op = "grid" /\ fn.done

\* the cell is the largest width by the largest height of the group
CellIsMax ==
    /\ \A j \in 1 .. Len(fn.views) :
           fn.views[j].width <= fn.cell.width /\ fn.views[j].height <= fn.cell.height
    /\ \E j \in 1 .. Len(fn.views) : fn.views[j].width = fn.cell.width
    /\ \E j \in 1 .. Len(fn.views) : fn.views[j].height = fn.cell.height

\* page j is in column (j-1) mod columns and row floor((j-1) / columns),
\* centred in that cell
PlacedRowMajor(j) ==
    LET pl == fn.place[j] IN
    /\ pl.col = (j - 1) % fn.layout.columns
    /\ pl.row = (j - 1) \div fn.layout.columns
    /\ 2 * (pl.x - pl.col * fn.cell.width) = fn.cell.width - fn.views[j].width
    /\ 2 * (pl.y - pl.row * fn.cell.height) = fn.cell.height - fn.views[j].height

InsideCell(j) ==
    LET pl == fn.place[j] IN
    /\ pl.col * fn.cell.width <= pl.x
    /\ pl.x + fn.views[j].width <= (pl.col + 1) * fn.cell.width
    /\ pl.row * fn.cell.height <= pl.y
    /\ pl.y + fn.views[j].height <= (pl.row + 1) * fn.cell.height

\* the canvas is in whole pixels, positions in eighths of a pixel
InsideCanvas(j) ==
    LET pl == fn.place[j] IN
    /\ pl.x >= 0 /\ pl.y >= 0
    /\ pl.x + fn.views[j].width <= 8 * fn.canvas.width
    /\ pl.y + fn.views[j].height <= 8 * fn.canvas.height

Disjoint(j, k) ==
    \/ fn.place[j].x + fn.views[j].width <= fn.place[k].x
    \/ fn.place[k].x + fn.views[k].width <= fn.place[j].x
    \/ fn.place[j].y + fn.views[j].height <= fn.place[k].y
    \/ fn.place[k].y + fn.views[k].height <= fn.place[j].y

\* C28: for a group of at most columns*rows pages of any sizes, the cell is
\* the largest width by the largest height, the canvas is cell width times
\* columns by cell height times rows, page i is centred in the cell of column
\* i mod columns and row floor(i / columns), every page lies inside its cell
\* and inside the canvas, and no two pages overlap.
C28_GridGeometry ==
    GridCalled =>
        /\ CellIsMax
        /\ 8 * fn.canvas.width = fn.cell.width * fn.layout.columns
        /\ 8 * fn.canvas.height = fn.cell.height * fn.layout.rows
        /\ \A j \in 1 .. Len(fn.views) :
               PlacedRowMajor(j) /\ InsideCell(j) /\ InsideCanvas(j)
        /\ \A j, k \in 1 .. Len(fn.views) : j # k => Disjoint(j, k)

\* the part of page j beyond the canvas is less than one pixel
InsideCanvasToThePixel(j) ==
    LET pl == fn.place[j] IN
    /\ pl.x >= 0 /\ pl.y >= 0
    /\ pl.x + fn.views[j].width < 8 * (fn.canvas.width + 1)
    /\ pl.y + fn.views[j].height < 8 * (fn.canvas.height + 1)

\* C28, amended: the cell is the largest width by the largest height, the
\* canvas is the whole-pixel part of cell width times columns by cell height
\* times rows, page i is centred in the cell of column i mod columns and row
\* floor(i / columns), every page lies inside its cell, no two pages overlap,
\* and a page reaches beyond the canvas by less than one pixel if at all.
C28_GridGeometryWholePixels ==
    GridCalled =>
        /\ CellIsMax
        /\ fn.canvas.width = (fn.cell.width * fn.layout.columns) \div 8
        /\ fn.canvas.height = (fn.cell.height * fn.layout.rows) \div 8
        /\ \A j \in 1 .. Len(fn.views) :
               PlacedRowMajor(j) /\ InsideCell(j) /\ InsideCanvasToThePixel(j)
        /\ \A j, k \in 1 .. Len(fn.views) : j # k => Disjoint(j, k)

\* three pages were laid out on a 2x2 grid whose cell is 1.25 pixels wide:
\* the canvas is 2 pixels wide and the second page ends at 2.5 pixels
C28_Witness ==
    /\ GridCalled
    /\ fn.layout.columns = 2 /\ fn.layout.rows = 2
    /\ Len(fn.views) = 3
    /\ fn.cell.width = 10
    /\ fn.canvas.width = 2
    /\ fn.views[2].width = 10
    /\ fn.place[2].col = 1 /\ fn.place[2].x = 10
    /\ fn.place[3].col = 0 /\ fn.place[3].row = 1

ItemCalled == kind = "fn" /\ fn.op = "item" /\ fn.done

\* C29: a group with fewer pages than the grid has cells, a group of exactly
\* one page included, is rendered to a surface of the full grid size: the
\* cell of the group times columns by times rows, in whole pixels.
C29_PartialGroupFullGrid ==
    (ItemCalled /\ Len(fn.views) < fn.layout.columns * fn.layout.rows) =>
        /\ fn.surface.width = (maxCellWidth(fn.views) * fn.layout.columns) \div 8
        /\ fn.surface.height = (maxCellHeight(fn.views) * fn.layout.rows) \div 8

EncodeCalled == kind = "fn" /\ fn.op = "encode" /\ fn.done

Lossless == {"image/png", "image/bmp", "image/tiff"}

\* C30: when the output format is lossless, the quality handed to the encoder
\* is undefined whatever quality the options carry, in pdf-to-image and in
\* the image mode of rasterize.
C30_LosslessQualityAbsent ==
    EncodeCalled =>
        /\ fn.imageEnc.mimeType \in Lossless => fn.imageEnc.quality = {}
        /\ fn.rasterEnc.mimeType \in Lossless => fn.rasterEnc.quality = {}

\* C31: in a rasterize call in image mode, the filenames of the rendered
\* images are pairwise distinct, so the ZIP holds one entry per image.
C31_ZipNamesDistinct ==
    \A c \in Calls :
        (kind = "rasterize" /\ call[c].inp.format # "pdf") =>
            LET images == call[c].images
                format == call[c].inp.format
            IN /\ \A i, j \in 1 .. Len(images) :
                      i # j => ImageFilename(images[i], format)
                               # ImageFilename(images[j], format)
               /\ Cardinality(ZipEntries(images, format)) = Len(images)

\* a rasterize call packed two images into the ZIP and succeeded
C31_Witness ==
    \E c \in Calls :
        /\ kind = "rasterize" /\ call[c].inp.format # "pdf"
        /\ Done(c)
        /\ Len(call[c].images) >= 2
        /\ \E e \in call[c].out : e.success
        /\ Cardinality(ZipEntries(call[c].images, call[c].inp.format)) >= 2

\* the handler h of a convert request is past the wait for initialization
Converting(h) == h.type = "convert" /\ h.pc \in {"w_buf", "w_conv", "w_read"}

\* C32: the worker runs the body of a convert request only once init() has
\* finished: the packages are installed and the Python helpers are defined.
C32_ConvertWaitsForInit ==
    \A h \in handlers :
        Converting(h) => wk.helpers /\ wk.initPromise = "resolved"

\* C33: the result posted with a convert request's id is the conversion of
\* that request's own input file, and no convert request fails for lack of
\* input.pdf or output.docx while the initialized worker serves several
\* requests.
C33_OwnFileConverted ==
    \A j \in 1 .. Len(toMain) :
        \A h \in handlers :
            (h.type = "convert" /\ toMain[j].req = h.key) =>
                /\ toMain[j].type = "convert-complete" =>
                       toMain[j].result = {<<h.file>>}
                /\ toMain[j].type = "error" =>
                       toMain[j].error \notin {"No such file: output.docx"}

\* call c awaits a promise that only an event of the worker can settle
AwaitsWorker(c) ==
    \/ call[c].pc = "d_awaitInit" /\ call[c].initP = "pending"
    \/ call[c].pc = "d_awaitConvert" /\ call[c].convP = "pending"

\* the listeners that settle the promise call c awaits are attached to the
\* processor's worker
CanBeSettled(c) ==
    /\ worker # 0
    /\ call[c].pc = "d_awaitInit" => initOwner = c
    /\ call[c].pc = "d_awaitConvert" =>
           \E j \in 1 .. Len(listeners) : listeners[j] = c

\* C34: a PDFToDocxProcessor call that awaits the worker can still be
\* resolved: the worker it waits for has not been terminated under it, so an
\* answer or an error event of the worker reaches its listeners.
C34_AwaitingCallCanResolve ==
    \A c \in Calls : (kind = "docx" /\ AwaitsWorker(c)) => CanBeSettled(c)

\* C35: whatever init and convert messages the worker receives, in any
\* order, the bootstrap init() is started at most once and never again once
\* initPromise is set; an init-complete message is posted only after that
\* bootstrap has finished, by the handler of an init message, with that
\* message's id, and once per init message.
C35_InitOnce ==
    /\ [](wk.starts <= 1)
    /\ [][wk.initPromise # "null" => wk'.starts = wk.starts]_vars
    /\ [](\A j \in 1 .. Len(toMain) :
            toMain[j].type = "init-complete" =>
                /\ wk.starts = 1 /\ wk.initPc = "done" /\ wk.helpers
                /\ \E h \in handlers :
                      /\ h.key = toMain[j].req /\ h.type = "init"
                      /\ h.id = toMain[j].id /\ h.nTerm = 1)

C35_Witness ==
    /\ kind = "worker" /\ wk.starts = 1
    /\ \E h, g \in handlers :
          /\ h.type = "init" /\ g.type = "init"
          /\ h.key < g.key /\ h.id # g.id
          /\ \E j, l \in 1 .. Len(toMain) :
                /\ j < l
                /\ toMain[j].type = "init-complete" /\ toMain[j].req = h.key
                /\ toMain[l].type = "init-complete" /\ toMain[l].req = g.key

\* C36: a conversion the user cancelled writes nothing to the tool's state
\* afterwards: no progress, no result, no error, and its completion does not
\* change the status, even when a new conversion was started before it
\* finished.
C36_CancelledPublishesNothing ==
    \A i \in DOMAIN tool.runs :
        tool.runs[i].userCancelled => tool.runs[i].published = {}

OptionsCalled == kind = "fn" /\ fn.op = "options" /\ fn.done

\* C37: whatever the quality slider and the dpi buttons are set to, the
\* quality RasterizePDFTool passes to rasterizePDF lies in 0.1 .. 1.0 (10 to
\* 100 hundredths) and the dpi in 72 .. 600.
C37_ToolOptionsInRange ==
    OptionsCalled =>
        /\ fn.options.quality \in 10 .. 100
        /\ fn.options.dpi \in 72 .. 600

WatermarkCalled == kind = "fn" /\ fn.op = "watermark" /\ fn.done

\* C38: the normalized options keep the caller's imageType, and an image
\* watermark is embedded as JPEG when the caller's imageType is 'jpg' and as
\* PNG when it is 'png' or undefined.
C38_ImageTypeKept ==
    WatermarkCalled =>
        /\ fn.wm.imageType = fn.wmIn.imageType
        /\ fn.wmIn.type = {"image"} =>
               fn.embed = IF fn.wmIn.imageType = {"jpg"} THEN "embedJpg"
                          ELSE "embedPng"

\* C39: the watermark is drawn with the caller's opacity and colour
\* components whenever the caller supplied them, 0 included; the defaults
\* (opacity 0.3, components 0.5) are used only for options left undefined.
C39_SuppliedValuesApplied ==
    WatermarkCalled =>
        /\ fn.drawn.opacity = Nullish(fn.wmIn.opacity, 30)
        /\ fn.wmIn.type = {"text"} =>
               /\ fn.drawn.r = Nullish(Chain(fn.wmIn.color, "r"), 50)
               /\ fn.drawn.g = Nullish(Chain(fn.wmIn.color, "g"), 50)
               /\ fn.drawn.b = Nullish(Chain(fn.wmIn.color, "b"), 50)

\* C40: on every successful rasterize call, metadata.renderedPages is the
\* number of pages rendered into the output, in image mode and in
\* combined-PDF mode; pages whose render threw are not counted.
C40_RenderedPagesCounted ==
    \A c \in Calls :
        kind = "rasterize" =>
            \A env \in call[c].out :
                env.success =>
                    \A rendered \in env.result : env.meta = Len(rendered)

====
